---- MODULE Spec2Model ----
(***************************************************************************)
(* CBR phone recommendation system: the weight validation helper, the      *)
(* Admin page's weight editor and the retrieval pipeline.                  *)
(*                                                                         *)
(* Weights are percentages with one decimal; the model holds them as       *)
(* integers in tenths of a percent (100.2% is 1002).                       *)
(***************************************************************************)
EXTENDS Integers, Sequences, FiniteSets, TLC

VARIABLES
    vInput,          \* validateWeights: the vector handed to it
    vResult,         \* validateWeights: the record it returned (NoResult before)
    loading,         \* Admin: useState(true)
    saving,          \* Admin: useState(false)
    weights,         \* Admin: the working vector
    originalWeights, \* Admin: the vector last taken from the server
    presets,         \* Admin: presets loaded from the server
    toast,           \* Admin: the last toast shown
    saveReq,         \* Admin: the updateWeights request of saveWeights
    resetReq,        \* Admin: the resetWeights request
    loadReq,         \* Admin: the getWeights/getWeightPresets request of loadData
    serverWeights,   \* weight store: the persisted vector
    catalog,         \* catalog store: the ordered snapshot of phone records
    normCache,       \* Normalizer: cached min/max of each numeric attribute
    engineWeights,   \* the weight vector handed to retrieve
    formData,        \* Recommendation: the form state
    rLoading,        \* Recommendation: useState(false)
    route,           \* the router's current path
    rToast,          \* Recommendation: the last toast shown
    storedPrefs,     \* localStorage 'recommendation_prefs'
    storedResults,   \* localStorage 'recommendation_results'
    request,         \* the POST /recommendations request in flight
    stage,           \* how far the engine is with the request
    work,            \* the engine's candidate list
    response,        \* the response to the request
    prevResponse,    \* the response to the previous request
    calls,           \* number of requests submitted
    mInput,          \* metric functions: the arguments handed to one of them
    mOutput,         \* metric functions: what it returned (NoMetric before)
    newPhone,        \* Admin: the add-phone form
    addReq,          \* Admin: the addPhone request of handleAddPhone
    versions,        \* catalog store: every snapshot the catalog has held
    evaluating,      \* Evaluation: useState(false)
    results,         \* Evaluation: the results displayed
    eToast,          \* Evaluation: the toast with id 'evaluation'
    evalReq,         \* the POST /evaluation/run request in flight
    evalStage,       \* how far the evaluator is with the request
    evalWork,        \* the evaluator's split and predictions, per scenario
    evalResponse,    \* the response to the request
    evalK,           \* the evaluator's number of neighbours
    eLoading,        \* Evaluation: useState(true)
    resultsReq,      \* Evaluation: the getResults request of loadResults
    rResults,        \* Results: useState(null), then the stored results
    sortBy,          \* Results: useState('similarity')
    pLoading,        \* PhoneList: useState(true)
    phones,          \* PhoneList: the phones displayed
    pagination,      \* PhoneList: page, total, totalPages
    filters,         \* PhoneList: the filters selected
    listReqs,        \* the GET /recommendations/phones requests in flight
    issued,          \* number of list requests issued
    latest           \* the list request issued last, and how it ended

validateVars == <<vInput, vResult>>
adminVars == <<loading, saving, weights, originalWeights, presets, toast,
               saveReq, resetReq, loadReq, serverWeights>>
storeVars == <<catalog, normCache, engineWeights>>
pageVars == <<formData, rLoading, route, rToast, storedPrefs, storedResults>>
engineVars == <<request, stage, work, response, prevResponse, calls>>
retrVars == <<storeVars, pageVars, engineVars>>
metricVars == <<mInput, mOutput>>
catalogVars == <<newPhone, addReq, versions>>
evalVars == <<evaluating, results, eToast, evalReq, evalStage, evalWork,
              evalResponse, evalK,
             eLoading, resultsReq>>
resultVars == <<rResults, sortBy>>
listVars == <<pLoading, phones, pagination, filters, listReqs, issued, latest>>
vars == <<validateVars, adminVars, retrVars, metricVars, catalogVars, evalVars,
          resultVars, listVars>>
notValidateVars == <<adminVars, retrVars, metricVars, catalogVars, evalVars,
                     resultVars, listVars>>
notAdminVars == <<validateVars, retrVars, metricVars, catalogVars, evalVars,
                  resultVars, listVars>>
notRetrVars == <<validateVars, adminVars, metricVars, catalogVars, evalVars,
                 resultVars, listVars>>
notMetricVars == <<validateVars, adminVars, retrVars, catalogVars, evalVars,
                   resultVars, listVars>>
notEvalVars == <<validateVars, adminVars, retrVars, metricVars, catalogVars,
                 resultVars, listVars>>
notResultVars == <<validateVars, adminVars, retrVars, metricVars, catalogVars,
                   evalVars, listVars>>
notListVars == <<validateVars, adminVars, retrVars, metricVars, catalogVars,
                 evalVars, resultVars>>

(***************************************************************************)
(* Weight objects                                                          *)
(***************************************************************************)

\* Property order of a weight object (insertion order of its keys).
KeyOrder == <<"Harga", "Ram", "Kapasitas_baterai">>

Keys == {KeyOrder[i] : i \in 1..Len(KeyOrder)}

\* Object.values(weights): the values in property order; {} gives <<>>.
ObjectValues(w) ==
    LET present == SelectSeq(KeyOrder, LAMBDA k : k \in DOMAIN w)
    IN  [i \in 1..Len(present) |-> w[present[i]]]

\* Array.prototype.reduce((sum, val) => sum + val, 0)
RECURSIVE ReduceSum(_)
ReduceSum(s) == IF s = <<>> THEN 0 ELSE s[1] + ReduceSum(Tail(s))

\* The sum of a vector's entries, taken over its key set.
RECURSIVE SumOver(_, _)
SumOver(w, S) ==
    IF S = {} THEN 0
    ELSE LET k == CHOOSE x \in S : TRUE IN w[k] + SumOver(w, S \ {k})

\* Array.prototype.some(val => val === 0)
SomeZero(s) == \E i \in 1..Len(s) : s[i] = 0

\* total >= 99 && total <= 101, in tenths of a percent
MinTotal == 990
MaxTotal == 1010

validateWeights_NoLowerBound(w) ==
    LET total   == ReduceSum(ObjectValues(w))
        isValid == total <= MaxTotal
        hasZero == SomeZero(ObjectValues(w))
    IN  [isValid |-> isValid /\ ~hasZero,
         total   |-> total,
         hasZero |-> hasZero,
         message |-> IF ~isValid THEN "Total bobot harus 100%"
                     ELSE IF hasZero THEN "Tidak boleh ada bobot bernilai 0"
                     ELSE "Valid"]

validateWeights(w) ==
    LET total   == ReduceSum(ObjectValues(w))
        isValid == total >= MinTotal /\ total <= MaxTotal
        hasZero == SomeZero(ObjectValues(w))
    IN  [isValid |-> isValid /\ ~hasZero,
         total   |-> total,
         hasZero |-> hasZero,
         message |-> IF ~isValid THEN "Total bobot harus 100%"
                     ELSE IF hasZero THEN "Tidak boleh ada bobot bernilai 0"
                     ELSE "Valid"]

(***************************************************************************)
(* validateWeights applied to a vector (helpers.js)                        *)
(***************************************************************************)

\* Weight values tried: negative, zero, half a percent, and values whose
\* sums hit 90, 99, 100, 100.2, 101 and 110.
ValidateValues == {-500, 0, 5, 300, 330, 334, 350, 500, 1500}

EmptyObj == [k \in {} |-> 0]

NoResult == [isValid |-> FALSE, total |-> 0, hasZero |-> FALSE, message |-> "none"]

Validate ==
    /\ vResult = NoResult
    /\ vResult' = validateWeights(vInput)
    /\ UNCHANGED vInput

(***************************************************************************)
(* Admin page: weight editor (Results.jsx, Admin component)                *)
(***************************************************************************)

\* The weight store of this page has two attributes.
AdminKeys == {"Harga", "Ram"}

\* Values a weight field can be given.
AdminValues == {-500, 0, 495, 505, 1000, 1500}

\* Text typed into a weight field: a number, or text parseFloat reads as NaN.
InputTexts ==
    {[nan |-> FALSE, num |-> v] : v \in AdminValues} \cup {[nan |-> TRUE, num |-> 0]}

\* parseFloat(value) || 0
ParseFloatOr0(text) == IF text.nan \/ text.num = 0 THEN 0 ELSE text.num

\* Startup defaults of the weight store, and what reset restores.
DefaultWeights == [k \in AdminKeys |-> IF k = "Harga" THEN 505 ELSE 495]

\* Presets served by /admin/weight-presets.
ServerPresets ==
    [p \in {"budget", "performance"} |->
        IF p = "budget"
        THEN [name |-> "Budget", weights |-> [k \in AdminKeys |-> IF k = "Harga" THEN 1500 ELSE 495]]
        ELSE [name |-> "Performance", weights |-> [k \in AdminKeys |-> IF k = "Harga" THEN 495 ELSE 505]]]

NoPresets == [p \in {} |-> 0]

NoReq == [st |-> "none", w |-> EmptyObj]

\* JSON.stringify(weights) !== JSON.stringify(originalWeights)
isChanged == weights # originalWeights

\* Object.values(weights).reduce((sum, val) => sum + val, 0)
totalWeight == ReduceSum(ObjectValues(weights))

\* The total indicator is green when Math.abs(totalWeight - 100) < 1.
TotalIndicatorGreen ==
    (IF totalWeight >= 1000 THEN totalWeight - 1000 ELSE 1000 - totalWeight) < 10

\* The page renders its controls only when loading is false.
ControlsShown == ~loading

handleWeightChange(key, value) ==
    /\ ControlsShown
    /\ key \in DOMAIN weights
    /\ weights' = [weights EXCEPT ![key] = ParseFloatOr0(value)]
    /\ UNCHANGED <<loading, saving, originalWeights, presets, toast,
                   saveReq, resetReq, loadReq, serverWeights>>

applyPreset(presetKey) ==
    /\ ControlsShown
    /\ presetKey \in DOMAIN presets
    /\ weights' = presets[presetKey].weights
    /\ toast' = "Preset diterapkan"
    /\ UNCHANGED <<loading, saving, originalWeights, presets,
                   saveReq, resetReq, loadReq, serverWeights>>

\* saveWeights up to its await: validate, then send or give up.
saveWeights_NoValidation ==
    /\ ControlsShown
    /\ ~saving /\ isChanged
    /\ saving' = TRUE
    /\ saveReq' = [st |-> "sent", w |-> weights]
    /\ UNCHANGED <<toast, loading, weights, originalWeights, presets,
                   resetReq, loadReq, serverWeights>>

saveWeights ==
    /\ ControlsShown
    /\ ~saving /\ isChanged
    /\ LET validation == validateWeights(weights)
       IN  IF ~validation.isValid
           THEN /\ toast' = validation.message
                /\ UNCHANGED <<saving, saveReq>>
           ELSE /\ saving' = TRUE
                /\ saveReq' = [st |-> "sent", w |-> weights]
                /\ UNCHANGED toast
    /\ UNCHANGED <<loading, weights, originalWeights, presets,
                   resetReq, loadReq, serverWeights>>

\* PUT /admin/weights handled by the server: stored, or refused.
ServerUpdateWeights ==
    /\ saveReq.st = "sent"
    /\ \/ /\ saveReq' = [saveReq EXCEPT !.st = "ok"]
          /\ serverWeights' = saveReq.w
       \/ /\ saveReq' = [saveReq EXCEPT !.st = "fail"]
          /\ UNCHANGED serverWeights
    /\ UNCHANGED <<loading, saving, weights, originalWeights, presets, toast,
                   resetReq, loadReq>>

\* saveWeights after its await: the try branch, then finally.
saveWeightsOk ==
    /\ saveReq.st = "ok"
    /\ originalWeights' = saveReq.w
    /\ toast' = "Bobot berhasil disimpan"
    /\ saving' = FALSE
    /\ saveReq' = NoReq
    /\ UNCHANGED <<loading, weights, presets, resetReq, loadReq, serverWeights>>

\* saveWeights after its await: the catch branch, then finally.
saveWeightsFail ==
    /\ saveReq.st = "fail"
    /\ toast' = "Gagal menyimpan bobot"
    /\ saving' = FALSE
    /\ saveReq' = NoReq
    /\ UNCHANGED <<loading, weights, originalWeights, presets, resetReq, loadReq,
                   serverWeights>>

\* resetWeights up to its await (one reset in flight at a time).
resetWeights ==
    /\ ControlsShown
    /\ resetReq.st = "none"
    /\ resetReq' = [st |-> "sent", w |-> EmptyObj]
    /\ UNCHANGED <<loading, saving, weights, originalWeights, presets, toast,
                   saveReq, loadReq, serverWeights>>

\* POST /admin/weights/reset handled by the server.
ServerResetWeights ==
    /\ resetReq.st = "sent"
    /\ \/ /\ resetReq' = [st |-> "ok", w |-> DefaultWeights]
          /\ serverWeights' = DefaultWeights
       \/ /\ resetReq' = [st |-> "fail", w |-> EmptyObj]
          /\ UNCHANGED serverWeights
    /\ UNCHANGED <<loading, saving, weights, originalWeights, presets, toast,
                   saveReq, loadReq>>

resetWeightsOk ==
    /\ resetReq.st = "ok"
    /\ weights' = resetReq.w
    /\ originalWeights' = resetReq.w
    /\ toast' = "Bobot direset ke default"
    /\ resetReq' = NoReq
    /\ UNCHANGED <<loading, saving, presets, saveReq, loadReq, serverWeights>>

resetWeightsFail ==
    /\ resetReq.st = "fail"
    /\ toast' = "Gagal mereset bobot"
    /\ resetReq' = NoReq
    /\ UNCHANGED <<loading, saving, weights, originalWeights, presets,
                   saveReq, loadReq, serverWeights>>

\* GET /admin/weights (with presets and dashboard) handled by the server.
ServerGetWeights ==
    /\ loadReq.st = "sent"
    /\ \/ loadReq' = [st |-> "ok", w |-> serverWeights]
       \/ loadReq' = [st |-> "fail", w |-> EmptyObj]
    /\ UNCHANGED <<loading, saving, weights, originalWeights, presets, toast,
                   saveReq, resetReq, serverWeights>>

\* loadData after its await: the try branch, then finally.
loadDataOk ==
    /\ loadReq.st = "ok"
    /\ weights' = loadReq.w
    /\ originalWeights' = loadReq.w
    /\ presets' = ServerPresets
    /\ loading' = FALSE
    /\ loadReq' = NoReq
    /\ UNCHANGED <<saving, toast, saveReq, resetReq, serverWeights>>

\* loadData after its await: the catch branch, then finally.
loadDataFail ==
    /\ loadReq.st = "fail"
    /\ toast' = "Gagal memuat data"
    /\ loading' = FALSE
    /\ loadReq' = NoReq
    /\ UNCHANGED <<saving, weights, originalWeights, presets, saveReq, resetReq,
                   serverWeights>>

(***************************************************************************)
(* Catalog, queries and weights of the retrieval engine                    *)
(*                                                                         *)
(* Prices are in units of 100 000 rupiah, battery capacities in units of   *)
(* 100 mAh, ratings in tenths, cameras in MP, weights in tenths of a        *)
(* percent.                                                                *)
(***************************************************************************)

\* An absent (null) numeric field, and an absent string field.
Null == -1
NullStr == "null"

Phone(id, brand, os, harga, ram, baterai, rating, kamera) ==
    [id |-> id, brand |-> brand, os |-> os, harga |-> harga, ram |-> ram,
     baterai |-> baterai, rating |-> rating, kamera |-> kamera]

\* The records catalogs are drawn from. 1 and 2 are the records of the price
\* scenario; 4 differs from 1 in rating only, 6 in identifier only.
PhonePool ==
    <<Phone(1, "Samsung", "Android", 65, 8, 50, 45, 48),
      Phone(2, "Xiaomi",  "Android", 90, 8, 50, 45, 48),
      Phone(3, "Apple",   "iOS",     75, 8, 50, 45, 48),
      Phone(4, "Samsung", "Android", 65, 8, 50, 42, 48),
      Phone(5, "Xiaomi",  "Android", 30, 4, 40, 38, 13),
      Phone(6, "Samsung", "Android", 65, 8, 50, 45, 48)>>

\* The pool records with identifiers in S, in identifier order.
PoolSubSeq(S) == SelectSeq(PhonePool, LAMBDA r : r.id \in S)

Reverse(s) == [i \in 1..Len(s) |-> s[Len(s) + 1 - i]]

\* Identifier sets of the catalogs tried: empty, single, the price scenario,
\* pairs that tie on similarity, a catalog no query below keeps, and the pool.
CatalogIdSets ==
    {{}, {1}, {1, 2}, {1, 3}, {1, 4}, {1, 6}, {2, 5}, {1, 2, 3}, {1, 3, 4, 6},
     {1, 2, 3, 4, 5, 6}}

\* Catalog snapshots: each of these sets in identifier order and in the
\* opposite order.
Catalogs ==
    {PoolSubSeq(S) : S \in CatalogIdSets}
        \cup {Reverse(PoolSubSeq(S)) : S \in CatalogIdSets}

\* The attributes the distance runs over, in weight-table order.
RetrKeyOrder == <<"Harga", "Ram", "Kapasitas_baterai", "Rating_pengguna">>
RetrKeys == {RetrKeyOrder[i] : i \in 1..Len(RetrKeyOrder)}

Weights4(h, r, b, g) ==
    [k \in RetrKeys |->
        CASE k = "Harga" -> h
          [] k = "Ram" -> r
          [] k = "Kapasitas_baterai" -> b
          [] OTHER -> g]

\* Weight vectors handed to retrieve: the defaults, equal weights, one with a
\* zero entry, one totalling 90, and one with an unknown attribute.
EngineWeightChoices ==
    {Weights4(400, 200, 200, 200),
     Weights4(250, 250, 250, 250),
     Weights4(500, 500, 0, 0),
     Weights4(400, 200, 200, 100),
     [k \in RetrKeys \cup {"Warna"} |-> 200]}

\* A form's preferred_brands list, held as a set.
\* specs.preferred_brands: null, or the non-empty list.
NullBrands == [null |-> TRUE, list |-> {}]

\* A form filled in with the values of a catalog record.
FormLike(r) ==
    [min_harga |-> Null, max_harga |-> r.harga, ram |-> r.ram,
     min_baterai |-> r.baterai, min_rating |-> r.rating,
     preferred_brands |-> {}, preferred_os |-> NullStr]

\* Forms that repeat the values of records 1 (and its twin 6), 3, 4 and 5.
IdenticalForms == {FormLike(PhonePool[i]) : i \in {1, 3, 4, 5}}

\* Form states tried.
FormChoices ==
    [min_harga : {Null},
     max_harga : {Null, 80},
     ram : {8},
     min_baterai : {Null, 45},
     min_rating : {Null, 40},
     preferred_brands : {{}, {"Samsung"}},
     preferred_os : {NullStr, "Android"}]
        \cup IdenticalForms

\* The record's value of a distance attribute.
AttrOf(r, k) ==
    CASE k = "Harga" -> r.harga
      [] k = "Ram" -> r.ram
      [] k = "Kapasitas_baterai" -> r.baterai
      [] OTHER -> r.rating

\* The query's wanted value of a distance attribute (Null: no preference).
TargetOf(q, k) ==
    CASE k = "Harga" -> q.max_harga
      [] k = "Ram" -> q.ram
      [] k = "Kapasitas_baterai" -> q.min_baterai
      [] OTHER -> q.min_rating

(***************************************************************************)
(* Normalizer, distance and similarity                                     *)
(***************************************************************************)

\* Normalized values are held in hundredths (0..NormScale).
NormScale == 100

RECURSIVE SeqMin(_, _)
SeqMin(s, k) ==
    IF Len(s) = 1 THEN AttrOf(s[1], k)
    ELSE LET m == SeqMin(Tail(s), k)
         IN  IF AttrOf(s[1], k) < m THEN AttrOf(s[1], k) ELSE m

RECURSIVE SeqMax(_, _)
SeqMax(s, k) ==
    IF Len(s) = 1 THEN AttrOf(s[1], k)
    ELSE LET m == SeqMax(Tail(s), k)
         IN  IF AttrOf(s[1], k) > m THEN AttrOf(s[1], k) ELSE m

\* Catalog-wide minimum and maximum of every numeric attribute.
ComputeStats(cat) ==
    [k \in RetrKeys |->
        IF cat = <<>> THEN [min |-> 0, max |-> 0]
        ELSE [min |-> SeqMin(cat, k), max |-> SeqMax(cat, k)]]

Clamp(x, lo, hi) == IF x < lo THEN lo ELSE IF x > hi THEN hi ELSE x

Normalize_NoClamp(value, st) ==
    IF st.max = st.min THEN 0
    ELSE ((value - st.min) * NormScale) \div (st.max - st.min)

\* (value - min) / (max - min) clamped to [0,1]; 0 when max = min.
Normalize(value, st) ==
    IF st.max = st.min THEN 0
    ELSE Clamp(((value - st.min) * NormScale) \div (st.max - st.min), 0, NormScale)

RECURSIVE ISqrtFrom(_, _)
ISqrtFrom(n, r) == IF (r + 1) * (r + 1) > n THEN r ELSE ISqrtFrom(n, r + 1)

\* Integer square root.
ISqrt(n) == ISqrtFrom(n, 0)

Term_QueryNotClamped(q, r, w, cache, k) ==
    IF TargetOf(q, k) = Null THEN 0
    ELSE LET x == Normalize_NoClamp(TargetOf(q, k), cache[k])
             y == Normalize(AttrOf(r, k), cache[k])
         IN  w[k] * (x - y) * (x - y)

\* One attribute's term w * (x - y)^2; an attribute the query leaves out is
\* skipped.
Term(q, r, w, cache, k) ==
    IF TargetOf(q, k) = Null THEN 0
    ELSE LET x == Normalize(TargetOf(q, k), cache[k])
             y == Normalize(AttrOf(r, k), cache[k])
         IN  w[k] * (x - y) * (x - y)

RECURSIVE SumTerms(_, _, _, _, _)
SumTerms(q, r, w, cache, ks) ==
    IF ks = <<>> THEN 0
    ELSE Term(q, r, w, cache, Head(ks)) + SumTerms(q, r, w, cache, Tail(ks))

\* d(x, y) = sqrt(sum of w_i * (x_i - y_i)^2), in hundredths.
Distance(q, r, w, cache) ==
    ISqrt(SumTerms(q, r, w, cache, RetrKeyOrder) \div 1000)

Similarity_OverMaxDistance(d) == 1000 - ((1000 * d) \div 150)

\* similarity = 1 / (1 + distance), in thousandths.
Similarity(d) == (1000 * NormScale) \div (NormScale + d)

(***************************************************************************)
(* Retrieval engine: POST /recommendations                                 *)
(***************************************************************************)

\* WeightVector invariant: all known attributes and no other, each weight in
\* (0,100], total in [99,101].
WeightInvariant(w) ==
    /\ DOMAIN w = RetrKeys
    /\ \A k \in DOMAIN w : w[k] > 0 /\ w[k] <= 1000
    /\ SumOver(w, DOMAIN w) >= 990
    /\ SumOver(w, DOMAIN w) <= 1010

\* Price bounds, minimum rating and minimum battery of the query.
PassesHardFilters(q, r) ==
    /\ q.max_harga = Null \/ r.harga <= q.max_harga
    /\ q.min_harga = Null \/ r.harga >= q.min_harga
    /\ q.min_rating = Null \/ r.rating >= q.min_rating
    /\ q.min_baterai = Null \/ r.baterai >= q.min_baterai

\* Preferred brand set and preferred OS of the query.
PassesBrandOs(q, r) ==
    /\ q.preferred_brands.null \/ r.brand \in q.preferred_brands.list
    /\ q.preferred_os = NullStr \/ r.os = q.preferred_os

Scored(q, r, w, cache) ==
    [phone |-> r, sim |-> Similarity(Distance(q, r, w, cache))]

\* a comes before b: higher similarity, then higher rating, then lower price,
\* then lower identifier.
Precedes(a, b) ==
    \/ a.sim > b.sim
    \/ a.sim = b.sim /\ a.phone.rating > b.phone.rating
    \/ a.sim = b.sim /\ a.phone.rating = b.phone.rating /\ a.phone.harga < b.phone.harga
    \/ /\ a.sim = b.sim /\ a.phone.rating = b.phone.rating
       /\ a.phone.harga = b.phone.harga /\ a.phone.id < b.phone.id

RECURSIVE InsertSorted(_, _)
InsertSorted(x, s) ==
    IF s = <<>> THEN <<x>>
    ELSE IF Precedes(x, Head(s)) THEN <<x>> \o s
    ELSE <<Head(s)>> \o InsertSorted(x, Tail(s))

RECURSIVE SortBySimilarity(_)
SortBySimilarity(s) ==
    IF s = <<>> THEN <<>>
    ELSE InsertSorted(Head(s), SortBySimilarity(Tail(s)))

\* The first k entries.
TopK(s, k) == SubSeq(s, 1, IF Len(s) < k THEN Len(s) ELSE k)

\* Dense 1-based ranks in list order.
AssignRanks(s) ==
    [i \in 1..Len(s) |->
        [rank |-> i, phone |-> s[i].phone, similarity_score |-> s[i].sim]]

NoRequest == [specs |-> [none |-> TRUE], top_k |-> 0, min_similarity |-> 0]
NoResponse == [st |-> "none", success |-> FALSE, recommendations |-> <<>>, error |-> ""]

CheckWeights_NoCheck ==
    /\ stage = "requested"
    /\ stage' = "validated"
    /\ UNCHANGED <<response, work, request, prevResponse, calls, storeVars, pageVars>>

\* The engine takes the request: the weight vector is checked first.
CheckWeights ==
    /\ stage = "requested"
    /\ IF WeightInvariant(engineWeights)
       THEN /\ stage' = "validated"
            /\ UNCHANGED response
       ELSE /\ stage' = "responded"
            /\ response' = [st |-> "error", success |-> FALSE,
                            recommendations |-> <<>>, error |-> "ConfigurationError"]
    /\ UNCHANGED <<work, request, prevResponse, calls, storeVars, pageVars>>

\* Records failing a price bound, the minimum rating or the minimum battery
\* are dropped.
ApplyHardFilters ==
    /\ stage = "validated"
    /\ work' = SelectSeq([i \in 1..Len(catalog) |-> [phone |-> catalog[i], sim |-> 0]],
                         LAMBDA c : PassesHardFilters(request.specs, c.phone))
    /\ stage' = "filtered"
    /\ UNCHANGED <<request, response, prevResponse, calls, storeVars, pageVars>>

Retrieve_RefitsNormalizer ==
    /\ stage = "filtered"
    /\ work' = [i \in 1..Len(work) |->
                   Scored(request.specs, work[i].phone, engineWeights, normCache)]
    /\ normCache' = ComputeStats([i \in 1..Len(work) |-> work[i].phone])
    /\ stage' = "scored"
    /\ UNCHANGED <<request, response, prevResponse, calls, catalog, engineWeights,
                   pageVars>>

\* RETRIEVE: similarity of the query with every candidate.
Retrieve ==
    /\ stage = "filtered"
    /\ work' = [i \in 1..Len(work) |->
                   Scored(request.specs, work[i].phone, engineWeights, normCache)]
    /\ stage' = "scored"
    /\ UNCHANGED <<request, response, prevResponse, calls, storeVars, pageVars>>

\* Candidates below min_similarity are dropped.
DropBelowThreshold ==
    /\ stage = "scored"
    /\ work' = SelectSeq(work, LAMBDA c : c.sim >= request.min_similarity)
    /\ stage' = "thresholded"
    /\ UNCHANGED <<request, response, prevResponse, calls, storeVars, pageVars>>

Sort_KeepsCatalogOrder ==
    /\ stage = "thresholded"
    /\ work' = work
    /\ stage' = "sorted"
    /\ UNCHANGED <<request, response, prevResponse, calls, storeVars, pageVars>>

Sort_Ascending ==
    /\ stage = "thresholded"
    /\ work' = Reverse(SortBySimilarity(work))
    /\ stage' = "sorted"
    /\ UNCHANGED <<request, response, prevResponse, calls, storeVars, pageVars>>

\* Sort by similarity, descending.
Sort ==
    /\ stage = "thresholded"
    /\ work' = SortBySimilarity(work)
    /\ stage' = "sorted"
    /\ UNCHANGED <<request, response, prevResponse, calls, storeVars, pageVars>>

Reuse_NoTruncation ==
    /\ stage = "sorted"
    /\ work' = work
    /\ stage' = "reused"
    /\ UNCHANGED <<request, response, prevResponse, calls, storeVars, pageVars>>

\* REUSE: take the top K.
Reuse ==
    /\ stage = "sorted"
    /\ work' = TopK(work, request.top_k)
    /\ stage' = "reused"
    /\ UNCHANGED <<request, response, prevResponse, calls, storeVars, pageVars>>

Revise_NoFilter ==
    /\ stage = "reused"
    /\ work' = work
    /\ stage' = "revised"
    /\ UNCHANGED <<request, response, prevResponse, calls, storeVars, pageVars>>

\* REVISE: the additional filters, brand and OS.
Revise ==
    /\ stage = "reused"
    /\ work' = SelectSeq(work, LAMBDA c : PassesBrandOs(request.specs, c.phone))
    /\ stage' = "revised"
    /\ UNCHANGED <<request, response, prevResponse, calls, storeVars, pageVars>>

\* Return the recommendations.
ReturnRecommendations ==
    /\ stage = "revised"
    /\ response' = [st |-> "ok", success |-> TRUE,
                    recommendations |-> AssignRanks(work), error |-> ""]
    /\ stage' = "responded"
    /\ UNCHANGED <<work, request, prevResponse, calls, storeVars, pageVars>>

\* The request or its response is lost: axios rejects with the error.
RequestFails ==
    /\ stage = "requested"
    /\ response' = [st |-> "error", success |-> FALSE,
                    recommendations |-> <<>>, error |-> "Network Error"]
    /\ stage' = "responded"
    /\ UNCHANGED <<work, request, prevResponse, calls, storeVars, pageVars>>

\* The whole pipeline on a catalog snapshot: the answer to a query.
RetrieveOn(cat, q, w, topK, minSimilarity) ==
    LET cache  == ComputeStats(cat)
        kept   == SelectSeq(cat, LAMBDA r : PassesHardFilters(q, r))
        scored == [i \in 1..Len(kept) |-> Scored(q, kept[i], w, cache)]
        above  == SelectSeq(scored, LAMBDA c : c.sim >= minSimilarity)
        top    == TopK(SortBySimilarity(above), topK)
    IN  AssignRanks(SelectSeq(top, LAMBDA c : PassesBrandOs(q, c.phone)))

(***************************************************************************)
(* Recommendation page (handleSubmit) and the way back from /results       *)
(***************************************************************************)

\* Number of requests a run submits.
MaxCalls == 2

\* Largest top_k requested.
MaxTopK == 2

\* min_similarity values requested, in thousandths.
MinSimilarityChoices == {200, 800}

SpecsOf_EmptyBrandList(f) ==
    [min_harga |-> f.min_harga,
     max_harga |-> f.max_harga,
     ram |-> f.ram,
     min_baterai |-> f.min_baterai,
     min_rating |-> f.min_rating,
     preferred_brands |-> [null |-> FALSE, list |-> f.preferred_brands],
     preferred_os |-> f.preferred_os]

\* The request body's input_specs built from the form.
SpecsOf(f) ==
    [min_harga |-> f.min_harga,
     max_harga |-> f.max_harga,
     ram |-> f.ram,
     min_baterai |-> f.min_baterai,
     min_rating |-> f.min_rating,
     preferred_brands |->
        IF Cardinality(f.preferred_brands) > 0
        THEN [null |-> FALSE, list |-> f.preferred_brands]
        ELSE NullBrands,
     preferred_os |-> f.preferred_os]

\* recommendationAPI.getRecommendations(specs, topK, minSimilarity)
getRecommendations(specs, topK, minSimilarity) ==
    [specs |-> specs, top_k |-> topK, min_similarity |-> minSimilarity]

\* Brands of the form's brand buttons.
BrandChoices == {"Samsung", "Apple"}

\* handleBrandToggle: the brand is taken out if selected, added if not.
handleBrandToggle(brand) ==
    /\ route = "/recommendation"
    /\ formData' = [formData EXCEPT !.preferred_brands =
                        IF brand \in @ THEN @ \ {brand} ELSE @ \cup {brand}]
    /\ UNCHANGED <<rLoading, route, rToast, storedPrefs, storedResults, storeVars,
                   engineVars>>

\* storage.set(key, value): the value is written, or localStorage.setItem
\* throws (quota, storage disabled), the error is logged and the old value
\* stays.
storageSet(old, value) == {value, old}

\* handleSubmit up to its await. A repeated submission repeats the arguments
\* of the first.
handleSubmit(topK, minSimilarity) ==
    /\ route = "/recommendation"
    /\ ~rLoading
    /\ stage \in {"form", "handled"}
    /\ calls < MaxCalls
    /\ calls > 0 => (topK = request.top_k /\ minSimilarity = request.min_similarity)
    /\ rLoading' = TRUE
    /\ storedPrefs' \in storageSet(storedPrefs, formData)
    /\ request' = getRecommendations(SpecsOf(formData), topK, minSimilarity)
    /\ prevResponse' = response
    /\ response' = NoResponse
    /\ work' = <<>>
    /\ stage' = "requested"
    /\ calls' = calls + 1
    /\ UNCHANGED <<formData, route, rToast, storedResults, storeVars>>

handleSubmitResolved_NoEmptyCheck ==
    /\ stage = "responded"
    /\ response.st = "ok"
    /\ IF response.success
       THEN /\ storedResults' \in storageSet(storedResults, response)
            /\ route' = "/results"
            /\ rToast' = "Ditemukan rekomendasi"
       ELSE /\ rToast' = "Tidak ditemukan HP yang sesuai"
            /\ UNCHANGED <<storedResults, route>>
    /\ rLoading' = FALSE
    /\ stage' = "handled"
    /\ UNCHANGED <<formData, storedPrefs, storeVars, request, work, response,
                   prevResponse, calls>>

\* handleSubmit after its await: the try branch, then finally.
handleSubmitResolved ==
    /\ stage = "responded"
    /\ response.st = "ok"
    /\ IF response.success /\ Len(response.recommendations) > 0
       THEN /\ storedResults' \in storageSet(storedResults, response)
            /\ route' = "/results"
            /\ rToast' = "Ditemukan rekomendasi"
       ELSE /\ rToast' = "Tidak ditemukan HP yang sesuai"
            /\ UNCHANGED <<storedResults, route>>
    /\ rLoading' = FALSE
    /\ stage' = "handled"
    /\ UNCHANGED <<formData, storedPrefs, storeVars, request, work, response,
                   prevResponse, calls>>

\* handleSubmit after its await: the catch branch, then finally.
handleSubmitRejected ==
    /\ stage = "responded"
    /\ response.st = "error"
    /\ rToast' = response.error
    /\ rLoading' = FALSE
    /\ stage' = "handled"
    /\ UNCHANGED <<formData, route, storedPrefs, storedResults, storeVars,
                   request, work, response, prevResponse, calls>>

\* The "Ubah Kriteria" link of the results page.
backToRecommendation ==
    /\ route = "/results"
    /\ route' = "/recommendation"
    /\ UNCHANGED <<formData, rLoading, rToast, storedPrefs, storedResults,
                   storeVars, engineVars>>

(***************************************************************************)
(* Catalog mutations: the Admin page's add-phone form (handleAddPhone),    *)
(* POST /admin/phones and DELETE /admin/phones/{id}                        *)
(***************************************************************************)

\* Number of catalog mutations a run performs.
MaxMutations == 2

\* The add-phone form as useState initialises it and as a successful
\* submission resets it: harga 0, ram 8, baterai 5000, rating 4.0, no brand.
DefaultNewPhone ==
    [brand |-> "", os |-> "Android", harga |-> 0, ram |-> 8, baterai |-> 50,
     rating |-> 40, kamera |-> 48]

\* The form filled in. It has no rating field: rating stays 4.0.
NewPhoneChoices ==
    {[brand |-> "Xiaomi", os |-> "Android", harga |-> 90, ram |-> 8,
      baterai |-> 50, rating |-> 40, kamera |-> 48]}

NoAddReq == [st |-> "none", phone |-> DefaultNewPhone]

\* The input handlers of the form: setNewPhone(p => ({...p, field: value})).
setNewPhone(p) ==
    /\ ControlsShown
    /\ newPhone' = p
    /\ UNCHANGED <<addReq, versions, adminVars>>

\* handleAddPhone up to its await. The brand input is required.
handleAddPhone ==
    /\ ControlsShown
    /\ newPhone.brand # ""
    /\ addReq.st = "none"
    /\ addReq' = [st |-> "sent", phone |-> newPhone]
    /\ UNCHANGED <<newPhone, versions, adminVars>>

\* handleAddPhone after its await: toast, form reset, loadData() up to its
\* await.
handleAddPhoneOk ==
    /\ addReq.st = "ok"
    /\ toast' = "HP berhasil ditambahkan"
    /\ newPhone' = DefaultNewPhone
    /\ loading' = TRUE
    /\ loadReq' = [st |-> "sent", w |-> EmptyObj]
    /\ addReq' = NoAddReq
    /\ UNCHANGED <<versions, saving, weights, originalWeights, presets,
                   saveReq, resetReq, serverWeights>>

\* handleAddPhone after its await: the catch branch.
handleAddPhoneFail ==
    /\ addReq.st = "fail"
    /\ toast' = "Gagal menambahkan HP"
    /\ addReq' = NoAddReq
    /\ UNCHANGED <<newPhone, versions, loading, saving, weights, originalWeights,
                   presets, saveReq, resetReq, loadReq, serverWeights>>

\* A retrieval pass is between its first read of the catalog and its answer.
\* An evaluation pass is between its read of the catalog and its answer.
EvalInFlight == evalStage \in {"split", "classified"}

RetrieveInFlight ==
    stage \in {"validated", "filtered", "scored", "thresholded", "sorted",
               "reused", "revised"}

PassInFlight == RetrieveInFlight \/ EvalInFlight

RECURSIVE MaxId(_)
MaxId(cat) ==
    IF cat = <<>> THEN 0
    ELSE LET m == MaxId(Tail(cat))
         IN  IF Head(cat).id > m THEN Head(cat).id ELSE m

\* The record stored for a submitted form, under a fresh identifier.
StoredPhone(cat, f) ==
    Phone(MaxId(cat) + 1, f.brand, f.os, f.harga, f.ram, f.baterai, f.rating,
          f.kamera)

ServerAddPhone_KeepsCache ==
    /\ addReq.st = "sent"
    /\ ~PassInFlight
    /\ \/ /\ Len(versions) <= MaxMutations
          /\ catalog' = Append(catalog, StoredPhone(catalog, addReq.phone))
          /\ normCache' = normCache
          /\ versions' = Append(versions, catalog')
          /\ addReq' = [addReq EXCEPT !.st = "ok"]
       \/ /\ addReq' = [addReq EXCEPT !.st = "fail"]
          /\ UNCHANGED <<catalog, normCache, versions>>
    /\ UNCHANGED <<newPhone, adminVars, engineWeights, pageVars, engineVars>>

ServerAddPhone_NoLock ==
    /\ addReq.st = "sent"
    /\ \/ /\ Len(versions) <= MaxMutations
          /\ catalog' = Append(catalog, StoredPhone(catalog, addReq.phone))
          /\ normCache' = ComputeStats(catalog')
          /\ versions' = Append(versions, catalog')
          /\ addReq' = [addReq EXCEPT !.st = "ok"]
       \/ /\ addReq' = [addReq EXCEPT !.st = "fail"]
          /\ UNCHANGED <<catalog, normCache, versions>>
    /\ UNCHANGED <<newPhone, adminVars, engineWeights, pageVars, engineVars>>

\* POST /admin/phones handled by the server: the record is appended and the
\* Normalizer cache recomputed, serialized against passes in flight; or the
\* request fails.
ServerAddPhone ==
    /\ addReq.st = "sent"
    /\ ~PassInFlight
    /\ \/ /\ Len(versions) <= MaxMutations
          /\ catalog' = Append(catalog, StoredPhone(catalog, addReq.phone))
          /\ normCache' = ComputeStats(catalog')
          /\ versions' = Append(versions, catalog')
          /\ addReq' = [addReq EXCEPT !.st = "ok"]
       \/ /\ addReq' = [addReq EXCEPT !.st = "fail"]
          /\ UNCHANGED <<catalog, normCache, versions>>
    /\ UNCHANGED <<newPhone, adminVars, engineWeights, pageVars, engineVars>>

\* DELETE /admin/phones/{id} handled by the server: the record is removed and
\* the Normalizer cache recomputed, serialized against passes in flight.
ServerDeletePhone(id) ==
    /\ ~PassInFlight
    /\ Len(versions) <= MaxMutations
    /\ \E i \in 1..Len(catalog) : catalog[i].id = id
    /\ catalog' = SelectSeq(catalog, LAMBDA r : r.id # id)
    /\ normCache' = ComputeStats(catalog')
    /\ versions' = Append(versions, catalog')
    /\ UNCHANGED <<newPhone, addReq, adminVars, engineWeights, pageVars, engineVars>>

(***************************************************************************)
(* Normalizer, distance and similarity applied to given arguments          *)
(***************************************************************************)

\* Largest distance handed to similarity, in hundredths.
MaxDistance == 150

\* Values handed to normalize: below, inside and above the catalog ranges.
NormalizeValues == {0, 30, 38, 40, 45, 50, 65, 75, 90, 200}

\* Valid weight vectors the distance is taken under.
MetricWeights ==
    {Weights4(400, 200, 200, 200), Weights4(250, 250, 250, 250),
     Weights4(100, 100, 100, 700)}

NoMetricInput == [op |-> "none", a |-> 0, b |-> 0, x |-> 0, y |-> 0, attr |-> "none"]
NoMetric == [op |-> "none", r1 |-> 0, r2 |-> 0, r3 |-> 0]

\* Arguments tried: two records, two distances, or a value and an attribute.
MetricInputs ==
    {[op |-> "distance", a |-> i, b |-> j, x |-> 0, y |-> 0, attr |-> "none"] :
        i \in 1..Len(PhonePool), j \in 1..Len(PhonePool)}
    \cup {[op |-> "similarity", a |-> 0, b |-> 0, x |-> d1, y |-> d2, attr |-> "none"] :
        d1 \in 0..MaxDistance, d2 \in 0..MaxDistance}
    \cup {[op |-> "normalize", a |-> 0, b |-> 0, x |-> v, y |-> 0, attr |-> k] :
        v \in NormalizeValues, k \in RetrKeys}

\* The record taken as a query: every attribute wanted at the record's value.
RecordAsQuery(r) == SpecsOf(FormLike(r))

\* distance between two records.
RecordDistance(a, b, w, cache) == Distance(RecordAsQuery(a), b, w, cache)

ComputeDistance ==
    /\ mInput.op = "distance"
    /\ mOutput = NoMetric
    /\ LET a == PhonePool[mInput.a]
           b == PhonePool[mInput.b]
       IN  mOutput' = [op |-> "distance",
                       r1 |-> RecordDistance(a, b, engineWeights, normCache),
                       r2 |-> RecordDistance(b, a, engineWeights, normCache),
                       r3 |-> RecordDistance(a, a, engineWeights, normCache)]
    /\ UNCHANGED mInput

ComputeSimilarity ==
    /\ mInput.op = "similarity"
    /\ mOutput = NoMetric
    /\ mOutput' = [op |-> "similarity",
                   r1 |-> Similarity(mInput.x),
                   r2 |-> Similarity(mInput.y),
                   r3 |-> Similarity(0)]
    /\ UNCHANGED mInput

ComputeNormalize ==
    /\ mInput.op = "normalize"
    /\ mOutput = NoMetric
    /\ mOutput' = [op |-> "normalize",
                   r1 |-> Normalize(mInput.x, normCache[mInput.attr]),
                   r2 |-> 0, r3 |-> 0]
    /\ UNCHANGED mInput

(***************************************************************************)
(* Split evaluator: POST /evaluation/run, and the Evaluation page          *)
(*                                                                         *)
(* Metrics are percentages held in hundredths of a percent (76.0 is 7600). *)
(***************************************************************************)

\* The classes, in the order of the confusion matrix.
Labels == <<"Gaming", "Photographer", "Daily">>

\* Category Labeler: thresholds on RAM, battery and camera.
Label(r) ==
    IF r.ram >= 12 /\ r.baterai >= 50 THEN "Gaming"
    ELSE IF r.kamera >= 50 THEN "Photographer"
    ELSE "Daily"

\* The records evaluation catalogs are drawn from: two of each class and one
\* Daily record close to the Photographer ones.
EvalPool ==
    <<Phone(11, "Xiaomi",  "Android", 90, 12, 50, 45, 48),
      Phone(12, "Samsung", "Android", 85, 12, 50, 44, 50),
      Phone(13, "Apple",   "iOS",     80, 8,  45, 45, 108),
      Phone(14, "Samsung", "Android", 75, 8,  45, 43, 64),
      Phone(15, "Xiaomi",  "Android", 30, 4,  45, 38, 13),
      Phone(16, "Xiaomi",  "Android", 35, 4,  50, 40, 13),
      Phone(17, "Samsung", "Android", 80, 8,  50, 45, 48)>>

\* The pool records with the given identifiers, in the given order.
EvalSeq(ids) ==
    [i \in 1..Len(ids) |-> CHOOSE r \in {EvalPool[j] : j \in 1..Len(EvalPool)} : r.id = ids[i]]

\* Catalog snapshots evaluated: empty, one record, and orders of 2 to 7.
EvalCatalogs ==
    {EvalSeq(ids) : ids \in {<<>>, <<11>>, <<11, 13>>, <<13, 15, 11>>,
                             <<11, 13, 15, 17>>, <<13, 15, 11, 17, 14>>,
                             <<11, 12, 13, 14, 15, 16, 17>>,
                             <<17, 16, 15, 14, 13, 12, 11>>,
                             <<11, 13, 15, 12, 14, 16, 17>>,
                             <<15, 16, 11, 12, 13, 14, 17>>}}

\* config.scenarios of runEvaluation: 70/30 alone, or 70/30 and 80/20.
Scenario7030 == [train |-> 70, test |-> 30]
Scenario8020 == [train |-> 80, test |-> 20]
ConfigChoices == {<<Scenario7030>>, <<Scenario7030, Scenario8020>>}

\* Numbers of neighbours tried.
KChoices == {1, 2, 3, 5}

ScenarioName(sc) == IF sc.train = 70 THEN "70-30" ELSE "80-20"

\* Size of the training subset of n records.
TrainSize(n, sc) == (n * sc.train) \div 100

SplitOf_TestsWholeCatalog(cat, sc) ==
    [scenario |-> sc,
     train |-> SubSeq(cat, 1, TrainSize(Len(cat), sc)),
     test |-> cat,
     predicted |-> <<>>]

\* Stable order, deterministic cut point: the first records train, the rest
\* test.
SplitOf(cat, sc) ==
    [scenario |-> sc,
     train |-> SubSeq(cat, 1, TrainSize(Len(cat), sc)),
     test |-> SubSeq(cat, TrainSize(Len(cat), sc) + 1, Len(cat)),
     predicted |-> <<>>]

TrainingEmpty_Never(cat, sc) == FALSE

\* No neighbours are possible.
TrainingEmpty(cat, sc) == TrainSize(Len(cat), sc) = 0

\* Insert a neighbour into a list ascending in distance, after its equals.
RECURSIVE InsertByDistance(_, _)
InsertByDistance(x, s) ==
    IF s = <<>> THEN <<x>>
    ELSE IF x.dist < Head(s).dist THEN <<x>> \o s
    ELSE <<Head(s)>> \o InsertByDistance(x, Tail(s))

RECURSIVE SortByDistance(_)
SortByDistance(s) ==
    IF s = <<>> THEN <<>>
    ELSE InsertByDistance(s[Len(s)], SortByDistance(SubSeq(s, 1, Len(s) - 1)))

\* The k training records nearest to the testing record, nearest first.
Neighbours(t, train, k, w, cache) ==
    TopK(SortByDistance([i \in 1..Len(train) |->
                            [label |-> Label(train[i]),
                             dist |-> RecordDistance(t, train[i], w, cache)]]), k)

Votes(nb, l) == Cardinality({i \in 1..Len(nb) : nb[i].label = l})

\* Distance of the label's nearest neighbour.
Nearest(nb, l) ==
    LET ds == {nb[i].dist : i \in {j \in 1..Len(nb) : nb[j].label = l}}
    IN  CHOOSE d \in ds : \A e \in ds : d <= e

Better_NoTieBreak(nb, a, b) == Votes(nb, a) > Votes(nb, b)

\* Label a beats label b: more votes, or as many and a nearer neighbour.
Better(nb, a, b) ==
    \/ Votes(nb, a) > Votes(nb, b)
    \/ /\ Votes(nb, a) = Votes(nb, b)
       /\ Votes(nb, a) > 0
       /\ Nearest(nb, a) < Nearest(nb, b)

RECURSIVE Majority(_, _, _)
Majority(nb, ls, best) ==
    IF ls = <<>> THEN best
    ELSE Majority(nb, Tail(ls), IF Better(nb, Head(ls), best) THEN Head(ls) ELSE best)

\* Majority label among the k nearest training records.
Predict(t, train, k, w, cache) ==
    Majority(Neighbours(t, train, k, w, cache), Tail(Labels), Head(Labels))

\* Rows are actual classes, columns predicted classes.
ConfusionMatrix(test, predicted) ==
    [a \in 1..Len(Labels) |->
        [p \in 1..Len(Labels) |->
            Cardinality({i \in 1..Len(test) :
                            Label(test[i]) = Labels[a] /\ predicted[i] = Labels[p]})]]

RECURSIVE SumSeq(_)
SumSeq(q) == IF q = <<>> THEN 0 ELSE Head(q) + SumSeq(Tail(q))

RowSum(m, a) == SumSeq(m[a])
ColSum(m, p) == SumSeq([a \in 1..Len(m) |-> m[a][p]])
Trace(m) == SumSeq([a \in 1..Len(m) |-> m[a][a]])
Total(m) == SumSeq([a \in 1..Len(m) |-> RowSum(m, a)])

\* The quotient left undefined for a zero denominator (-1 stands for it).
Ratio_Undefined(x, y) == IF y = 0 THEN -1 ELSE (x * 10000) \div y

\* x / y as a percentage in hundredths; 0 when y is 0.
Ratio(x, y) == IF y = 0 THEN 0 ELSE (x * 10000) \div y

\* Per-class precision, recall, F1 and support.
ClassReport(m) ==
    [a \in 1..Len(m) |->
        LET precision == Ratio(m[a][a], ColSum(m, a))
            recall    == Ratio(m[a][a], RowSum(m, a))
        IN  [label |-> Labels[a],
             precision |-> precision,
             recall |-> recall,
             f1 |-> IF precision + recall = 0 THEN 0
                    ELSE (2 * precision * recall) \div (precision + recall),
             support |-> RowSum(m, a)]]

\* Average of a per-class metric weighted by support.
WeightedAverage(report, total, field) ==
    IF total = 0 THEN 0
    ELSE SumSeq([a \in 1..Len(report) |-> report[a][field] * report[a].support]) \div total

ScenarioResult_AccuracyOverCatalog(wk) ==
    LET m      == ConfusionMatrix(wk.test, wk.predicted)
        report == ClassReport(m)
    IN  [name |-> ScenarioName(wk.scenario),
         train_size |-> Len(wk.train),
         test_size |-> Len(wk.test),
         metrics |-> [accuracy |-> Ratio(Trace(m), Len(wk.train) + Len(wk.test)),
                      precision |-> WeightedAverage(report, Total(m), "precision"),
                      recall |-> WeightedAverage(report, Total(m), "recall"),
                      f1_score |-> WeightedAverage(report, Total(m), "f1")],
         confusion_matrix |-> [matrix |-> m, labels |-> Labels,
                               tp |-> Trace(m), tn |-> 0,
                               fp |-> Total(m) - Trace(m), fn |-> 0],
         report |-> report]

\* One scenario of an EvaluationResult.
ScenarioResult(wk) ==
    LET m      == ConfusionMatrix(wk.test, wk.predicted)
        report == ClassReport(m)
    IN  [name |-> ScenarioName(wk.scenario),
         train_size |-> Len(wk.train),
         test_size |-> Len(wk.test),
         metrics |-> [accuracy |-> Ratio(Trace(m), Total(m)),
                      precision |-> WeightedAverage(report, Total(m), "precision"),
                      recall |-> WeightedAverage(report, Total(m), "recall"),
                      f1_score |-> WeightedAverage(report, Total(m), "f1")],
         confusion_matrix |-> [matrix |-> m, labels |-> Labels,
                               tp |-> Trace(m), tn |-> 0,
                               fp |-> Total(m) - Trace(m), fn |-> 0],
         report |-> report]

\* Default evaluation results (static data from actual evaluation), with the
\* rows of the page's classification report.
DEFAULT_RESULTS ==
    [success |-> TRUE,
     best_scenario |-> "70-30",
     scenarios |->
        <<[name |-> "70-30",
           train_size |-> 700,
           test_size |-> 300,
           metrics |-> [accuracy |-> 7600, precision |-> 7596,
                        recall |-> 7600, f1_score |-> 7574],
           confusion_matrix |->
              [matrix |-> <<<<24, 8, 9>>, <<7, 122, 17>>, <<1, 30, 82>>>>,
               labels |-> Labels,
               tp |-> 228, tn |-> 0, fp |-> 72, fn |-> 0],
           report |->
              <<[label |-> "Gaming", precision |-> 7500, recall |-> 5900,
                 f1 |-> 6600, support |-> 41],
                [label |-> "Photographer", precision |-> 7600, recall |-> 8400,
                 f1 |-> 8000, support |-> 146],
                [label |-> "Daily", precision |-> 7600, recall |-> 7300,
                 f1 |-> 7400, support |-> 113]>>]>>]

\* useState(null).
NoResults == [success |-> FALSE, best_scenario |-> "", scenarios |-> <<>>]

\* What GET /evaluation/results may hold: nothing, or the metrics of an
\* earlier run per scenario.
SavedResultChoices ==
    {<<>>,
     <<[scenario |-> "70-30",
        metrics |-> [accuracy |-> 8500, precision |-> 8700,
                     recall |-> 8500, f1_score |-> 8600]]>>}

\* The object loadResults builds from the saved results.
TransformedData(data) ==
    [success |-> TRUE,
     best_scenario |-> data[1].scenario,
     scenarios |->
        [i \in 1..Len(data) |->
            [name |-> data[i].scenario,
             train_size |-> 700,
             test_size |-> 300,
             metrics |-> data[i].metrics,
             confusion_matrix |-> DEFAULT_RESULTS.scenarios[1].confusion_matrix,
             report |-> DEFAULT_RESULTS.scenarios[1].report]]]

\* loadResults after its await, the try branch, then finally.
loadResultsOk(data) ==
    /\ resultsReq = "sent"
    /\ results' = IF Len(data) > 0 THEN TransformedData(data) ELSE DEFAULT_RESULTS
    /\ eLoading' = FALSE
    /\ resultsReq' = "done"
    /\ UNCHANGED <<evaluating, eToast, evalReq, evalStage, evalWork, evalResponse, evalK>>

\* loadResults after its await, the catch branch, then finally.
loadResultsFail ==
    /\ resultsReq = "sent"
    /\ results' = DEFAULT_RESULTS
    /\ eLoading' = FALSE
    /\ resultsReq' = "done"
    /\ UNCHANGED <<evaluating, eToast, evalReq, evalStage, evalWork, evalResponse, evalK>>

\* The scenario the page displays: results?.scenarios?.[0].
DisplayedScenario == results.scenarios[1]

\* The page is past its loading screen and has a scenario to display.
DisplaysScenario == ~eLoading /\ Len(results.scenarios) > 0

\* scenario?.metrics?.accuracy || 76.0
DisplayedAccuracy ==
    IF DisplayedScenario.metrics.accuracy # 0
    THEN DisplayedScenario.metrics.accuracy ELSE 7600

\* scenario?.confusion_matrix?.matrix || [[24, 8, 9], [7, 122, 17], [1, 30, 82]]
DisplayedMatrix == DisplayedScenario.confusion_matrix.matrix

\* "700 data training, 300 data testing"
DisplayedTrainSize == 700
DisplayedTestSize == 300

\* "Total Prediksi Benar: 228 | Total Prediksi Salah: 72 | Accuracy: 76%"
DisplayedFooter == [benar |-> 228, salah |-> 72, accuracy |-> 7600]

NoEvalReq == [scenarios |-> <<>>, similarity_threshold |-> 0]
NoEvalResponse == [st |-> "none", data |-> [success |-> FALSE], error |-> ""]

runEvaluation_ButtonEnabled(config) ==
    /\ ~eLoading
    /\ evaluating' = TRUE
    /\ eToast' = "Menjalankan evaluasi..."
    /\ evalReq' = [scenarios |-> config, similarity_threshold |-> 500]
    /\ evalStage' = "requested"
    /\ evalWork' = <<>>
    /\ evalResponse' = NoEvalResponse
    /\ UNCHANGED <<results, evalK, eLoading, resultsReq>>

\* runEvaluation up to its await; its buttons are disabled while evaluating.
runEvaluation(config) ==
    /\ ~eLoading
    /\ ~evaluating
    /\ evaluating' = TRUE
    /\ eToast' = "Menjalankan evaluasi..."
    /\ evalReq' = [scenarios |-> config, similarity_threshold |-> 500]
    /\ evalStage' = "requested"
    /\ evalWork' = <<>>
    /\ evalResponse' = NoEvalResponse
    /\ UNCHANGED <<results, evalK, eLoading, resultsReq>>

\* The evaluator takes the request: weights and training subsets are checked,
\* then every scenario's catalog is split.
EvalSplit ==
    /\ evalStage = "requested"
    /\ IF ~WeightInvariant(engineWeights)
       THEN /\ evalResponse' = [st |-> "error", data |-> [success |-> FALSE],
                                error |-> "ConfigurationError"]
            /\ evalStage' = "responded"
            /\ UNCHANGED evalWork
       ELSE IF \E i \in 1..Len(evalReq.scenarios) :
                   TrainingEmpty(catalog, evalReq.scenarios[i])
       THEN /\ evalResponse' = [st |-> "error", data |-> [success |-> FALSE],
                                error |-> "training subset empty"]
            /\ evalStage' = "responded"
            /\ UNCHANGED evalWork
       ELSE /\ evalWork' = [i \in 1..Len(evalReq.scenarios) |->
                               SplitOf(catalog, evalReq.scenarios[i])]
            /\ evalStage' = "split"
            /\ UNCHANGED evalResponse
    /\ UNCHANGED <<evaluating, results, eToast, evalReq, evalK, eLoading, resultsReq>>

\* Every testing record gets the majority label of its k nearest training
\* records.
EvalClassify ==
    /\ evalStage = "split"
    /\ evalWork' = [i \in 1..Len(evalWork) |->
                       [evalWork[i] EXCEPT !.predicted =
                           [j \in 1..Len(evalWork[i].test) |->
                               Predict(evalWork[i].test[j], evalWork[i].train, evalK,
                                       engineWeights, normCache)]]]
    /\ evalStage' = "classified"
    /\ UNCHANGED <<evaluating, results, eToast, evalReq, evalResponse, evalK, eLoading, resultsReq>>

\* Confusion matrix and metrics of every scenario are returned.
EvalReport ==
    /\ evalStage = "classified"
    /\ evalResponse' =
          [st |-> "ok",
           data |-> [success |-> TRUE,
                     best_scenario |-> ScenarioName(evalWork[1].scenario),
                     scenarios |-> [i \in 1..Len(evalWork) |-> ScenarioResult(evalWork[i])]],
           error |-> ""]
    /\ evalStage' = "responded"
    /\ UNCHANGED <<evaluating, results, eToast, evalReq, evalWork, evalK, eLoading, resultsReq>>

\* The request or its response is lost: axios rejects with the error.
EvalRequestFails ==
    /\ evalStage = "requested"
    /\ evalResponse' = [st |-> "error", data |-> [success |-> FALSE],
                        error |-> "Network Error"]
    /\ evalStage' = "responded"
    /\ UNCHANGED <<evaluating, results, eToast, evalReq, evalWork, evalK, eLoading, resultsReq>>

\* runEvaluation after its await: the try branch, then finally.
runEvaluationOk ==
    /\ evalStage = "responded"
    /\ evalResponse.st = "ok"
    /\ results' = evalResponse.data
    /\ eToast' = "Evaluasi selesai!"
    /\ evaluating' = FALSE
    /\ evalStage' = "handled"
    /\ UNCHANGED <<evalReq, evalWork, evalResponse, evalK, eLoading, resultsReq>>

\* runEvaluation after its await: the catch branch, then finally.
runEvaluationFail ==
    /\ evalStage = "responded"
    /\ evalResponse.st = "error"
    /\ eToast' = "Gagal menjalankan evaluasi"
    /\ evaluating' = FALSE
    /\ evalStage' = "handled"
    /\ UNCHANGED <<results, evalReq, evalWork, evalResponse, evalK, eLoading, resultsReq>>

(***************************************************************************)
(* Explanation generator, and the highlights of a phone card               *)
(***************************************************************************)

\* highlights.slice(0, 3)
MaxHighlights == 3

\* The attributes explained, in their fixed order (storage and camera are not
\* part of the queries held here).
ExplainOrder == <<"price", "ram", "battery", "brand", "os", "rating">>

\* Attributes that are hard constraints.
HardAttributes == {"price", "brand", "os"}

\* The record satisfies the query's constraint on the attribute.
Satisfies(q, r, a) ==
    CASE a = "price" -> q.max_harga # Null /\ r.harga <= q.max_harga
      [] a = "ram" -> q.ram # Null /\ r.ram >= q.ram
      [] a = "battery" -> q.min_baterai # Null /\ r.baterai >= q.min_baterai
      [] a = "brand" -> ~q.preferred_brands.null /\ r.brand \in q.preferred_brands.list
      [] a = "os" -> q.preferred_os # NullStr /\ r.os = q.preferred_os
      [] OTHER -> q.min_rating # Null /\ r.rating >= q.min_rating

\* The string shown for a satisfied attribute.
HighlightOf(a) ==
    CASE a = "price" -> "Harga sesuai budget"
      [] a = "ram" -> "RAM memenuhi kebutuhan"
      [] a = "battery" -> "Baterai memenuhi kebutuhan"
      [] a = "brand" -> "Brand favorit"
      [] a = "os" -> "OS sesuai"
      [] OTHER -> "Rating memenuhi kebutuhan"

\* The satisfied attributes, in the fixed order.
SatisfiedAttributes(q, r) == SelectSeq(ExplainOrder, LAMBDA a : Satisfies(q, r, a))

SelectedAttributes_FixedOrderCut(q, r) == TopK(SatisfiedAttributes(q, r), MaxHighlights)

\* The attributes explained: all satisfied ones when they fit the cap, else
\* the satisfied hard constraints and then the first satisfied soft ones, in
\* the fixed order.
SelectedAttributes(q, r) ==
    LET sat    == SatisfiedAttributes(q, r)
        hard   == SelectSeq(sat, LAMBDA a : a \in HardAttributes)
        soft   == SelectSeq(sat, LAMBDA a : a \notin HardAttributes)
        chosen == TopK(hard \o soft, MaxHighlights)
    IN  SelectSeq(sat, LAMBDA a : \E i \in 1..Len(chosen) : chosen[i] = a)

\* explain(query, record)
Explain(q, r) ==
    LET sel == SelectedAttributes(q, r)
    IN  [i \in 1..Len(sel) |-> HighlightOf(sel[i])]

PhoneCardHighlights_NoSlice(highlights) == highlights

\* The highlights a phone card displays.
PhoneCardHighlights(highlights) ==
    IF Len(highlights) > 0 THEN TopK(highlights, MaxHighlights) ELSE <<>>

\* match_highlights a response may carry, whatever produced them: none, the
\* three of the documented response, and lists of four and six.
GivenHighlights ==
    {<<>>,
     <<"Harga sesuai budget", "RAM memenuhi kebutuhan", "Brand favorit">>,
     <<"Harga sesuai budget", "RAM memenuhi kebutuhan", "Brand favorit", "OS sesuai">>,
     [i \in 1..Len(ExplainOrder) |-> HighlightOf(ExplainOrder[i])]}

\* Queries and records explained, and highlights handed to a card as they
\* are.
ExplainInputs ==
    {[op |-> "explain", q |-> SpecsOf(f), r |-> PhonePool[i], given |-> <<>>] :
        f \in FormChoices, i \in 1..Len(PhonePool)}
    \cup {[op |-> "card", q |-> NoRequest.specs, r |-> PhonePool[1], given |-> h] :
        h \in GivenHighlights}

NoExplanation == [op |-> "none", list |-> <<>>, shown |-> <<>>]

\* The explanation generator is applied to the query and the record.
ComputeExplain ==
    /\ mInput.op = "explain"
    /\ mOutput = NoExplanation
    /\ mOutput' = [op |-> "explained", list |-> Explain(mInput.q, mInput.r), shown |-> <<>>]
    /\ UNCHANGED mInput

\* A phone card is rendered with the explanation as its highlights.
RenderExplained ==
    /\ mOutput.op = "explained"
    /\ mOutput' = [mOutput EXCEPT !.op = "rendered",
                                  !.shown = PhoneCardHighlights(mOutput.list)]
    /\ UNCHANGED mInput

\* A phone card is rendered with the highlights it is given.
RenderGiven ==
    /\ mInput.op = "card"
    /\ mOutput = NoExplanation
    /\ mOutput' = [op |-> "rendered", list |-> mInput.given,
                   shown |-> PhoneCardHighlights(mInput.given)]
    /\ UNCHANGED mInput

(***************************************************************************)
(* Results page                                                            *)
(***************************************************************************)

\* getRecommendations(specs, 10, 0.2)
RequestedTopK == 10
RequestedMinSimilarity == 200

\* What localStorage 'recommendation_results' may hold when the page mounts:
\* nothing, or a response with at least one recommendation.
StoredChoices ==
    {NoResponse} \cup
    {[st |-> "ok", success |-> TRUE, recommendations |-> recs, error |-> ""] :
        recs \in {RetrieveOn(cat, SpecsOf(f), Weights4(400, 200, 200, 200),
                             RequestedTopK, RequestedMinSimilarity) :
                     cat \in Catalogs, f \in FormChoices} \ {<<>>}}

\* The options of the sort select.
SortChoices == {"similarity", "price_asc", "price_desc", "rating"}

Compare_SimilarityThenPrice(a, b, by) ==
    CASE by = "price_asc" -> a.phone.harga - b.phone.harga
      [] by = "price_desc" -> b.phone.harga - a.phone.harga
      [] by = "rating" -> b.phone.rating - a.phone.rating
      [] OTHER -> IF b.similarity_score # a.similarity_score
                  THEN b.similarity_score - a.similarity_score
                  ELSE a.phone.harga - b.phone.harga

\* The comparator of sortedRecommendations: negative when a goes first.
Compare(a, b, by) ==
    CASE by = "price_asc" -> a.phone.harga - b.phone.harga
      [] by = "price_desc" -> b.phone.harga - a.phone.harga
      [] by = "rating" -> b.phone.rating - a.phone.rating
      [] OTHER -> b.similarity_score - a.similarity_score

\* Array.prototype.sort is stable: an element goes after those it does not
\* precede.
RECURSIVE InsertStable(_, _, _)
InsertStable(x, sorted, by) ==
    IF sorted = <<>> THEN <<x>>
    ELSE IF Compare(x, Head(sorted), by) < 0 THEN <<x>> \o sorted
    ELSE <<Head(sorted)>> \o InsertStable(x, Tail(sorted), by)

RECURSIVE StableSort(_, _)
StableSort(recs, by) ==
    IF recs = <<>> THEN <<>>
    ELSE InsertStable(recs[Len(recs)], StableSort(SubSeq(recs, 1, Len(recs) - 1), by), by)

\* [...recommendations].sort(...)
sortedRecommendations == StableSort(rResults.recommendations, sortBy)

\* The page is past its "Belum Ada Hasil" screen.
ShowsResults == rResults # NoResponse

\* The rank badge of the card at the position (0: no badge).
CardRank(i) == IF sortBy = "similarity" THEN sortedRecommendations[i].rank ELSE 0

\* useEffect on mount: the stored results, if any, become the page's results.
ResultsMount ==
    /\ route = "/results"
    /\ rResults = NoResponse
    /\ storedResults # NoResponse
    /\ rResults' = storedResults
    /\ UNCHANGED sortBy

\* The sort select.
setSortBy(by) ==
    /\ route = "/results"
    /\ ShowsResults
    /\ by # sortBy
    /\ sortBy' = by
    /\ UNCHANGED rResults

\* The "Ubah Kriteria" link taken: the Results page unmounts and its state is
\* discarded.
leaveResults ==
    /\ backToRecommendation
    /\ rResults' = NoResponse
    /\ sortBy' = "similarity"

\* A response stored by an earlier visit.
PreviousResults ==
    CHOOSE r \in StoredChoices : r # NoResponse /\ Len(r.recommendations) = 1

(***************************************************************************)
(* Phone list page                                                         *)
(***************************************************************************)

\* useState({ brand: '', ..., sort_by: 'Harga', sort_order: 'asc' }); the
\* price filters are left at null.
DefaultFilters == [brand |-> "", max_price |-> 0, sort_by |-> "Harga", sort_order |-> "asc"]

\* recommendationAPI.getPhones({ page, limit, ...filters })
ListRequest(id, page, f) == [id |-> id, page |-> page, filters |-> f]

\* Requests the page may issue before the model stops issuing more.
MaxListRequests == 4

\* getPhones({ page, limit: 12, ...filters })
ListLimit == 12

\* The phones the server lists: fourteen records of two brands, all prices
\* different.
ListPoolSize == 14
ListPool ==
    [i \in 1..ListPoolSize |->
        [id |-> i,
         brand |-> IF i % 2 = 1 THEN "Samsung" ELSE "Xiaomi",
         harga |-> 20 + ((i * 5) % ListPoolSize) * 5]]

RECURSIVE SortByHarga(_)
SortByHarga(ps) ==
    IF ps = <<>> THEN <<>>
    ELSE LET i == CHOOSE i \in 1..Len(ps) : \A j \in 1..Len(ps) : ps[i].harga <= ps[j].harga
         IN <<ps[i]>> \o SortByHarga(SubSeq(ps, 1, i - 1) \o SubSeq(ps, i + 1, Len(ps)))

\* GET /phones: filter, sort, cut the page.
ListMatches(f) ==
    LET Keeps(p) == /\ (f.brand = "" \/ p.brand = f.brand)
                    /\ (f.max_price = 0 \/ p.harga <= f.max_price)
        asc == SortByHarga(SelectSeq(ListPool, Keeps))
    IN IF f.sort_order = "asc" THEN asc ELSE Reverse(asc)

ListResponse(req) ==
    LET all == ListMatches(req.filters)
        from == (req.page - 1) * ListLimit + 1
        to == IF req.page * ListLimit < Len(all) THEN req.page * ListLimit ELSE Len(all)
    IN [phones |-> SubSeq(all, from, to),
        page |-> req.page,
        total |-> Len(all),
        total_pages |-> (Len(all) + ListLimit - 1) \div ListLimit]

\* What the filter selects offer.
BrandFilterChoices == {"", "Samsung"}
MaxPriceChoices == {0, 50}
SortOrderChoices == {"asc", "desc"}

\* loadPhones up to its await: the effect ran for this page and these filters.
IssueListRequest(page, f) ==
    /\ issued < MaxListRequests
    /\ issued' = issued + 1
    /\ listReqs' = listReqs \cup {ListRequest(issued + 1, page, f)}
    /\ latest' = [req |-> ListRequest(issued + 1, page, f), st |-> "sent"]
    /\ pLoading' = TRUE

\* handleFilterChange(key, value): the filter is set, the page goes back to 1
\* and the effect runs loadPhones.
handleFilterChange(key, value) ==
    /\ filters[key] # value
    /\ filters' = [filters EXCEPT ![key] = value]
    /\ pagination' = [pagination EXCEPT !.page = 1]
    /\ IssueListRequest(1, [filters EXCEPT ![key] = value])
    /\ UNCHANGED phones

\* The buttons under the list, shown when there is more than one page.
prevPage ==
    /\ pagination.totalPages > 1
    /\ pagination.page # 1
    /\ pagination' = [pagination EXCEPT !.page = pagination.page - 1]
    /\ IssueListRequest(pagination.page - 1, filters)
    /\ UNCHANGED <<phones, filters>>

nextPage ==
    /\ pagination.totalPages > 1
    /\ pagination.page # pagination.totalPages
    /\ pagination' = [pagination EXCEPT !.page = pagination.page + 1]
    /\ IssueListRequest(pagination.page + 1, filters)
    /\ UNCHANGED <<phones, filters>>

\* loadPhones after its await, in any order among the requests in flight: the
\* response is shown whatever request it answers; a page other than the one
\* shown makes the effect run loadPhones again.
loadPhonesOk(req) ==
    LET res == ListResponse(req)
    IN /\ req \in listReqs
       /\ phones' = res.phones
       /\ pagination' = [page |-> res.page, total |-> res.total, totalPages |-> res.total_pages]
       /\ IF res.page # pagination.page
          THEN /\ issued < MaxListRequests
               /\ issued' = issued + 1
               /\ listReqs' = (listReqs \ {req}) \cup {ListRequest(issued + 1, res.page, filters)}
               /\ latest' = [req |-> ListRequest(issued + 1, res.page, filters), st |-> "sent"]
               /\ pLoading' = TRUE
          ELSE /\ listReqs' = listReqs \ {req}
               /\ latest' = IF latest.req = req THEN [latest EXCEPT !.st = "ok"] ELSE latest
               /\ pLoading' = FALSE
               /\ UNCHANGED issued
       /\ UNCHANGED filters

\* catch (err): nothing but the loading flag changes.
loadPhonesFail(req) ==
    /\ req \in listReqs
    /\ listReqs' = listReqs \ {req}
    /\ latest' = IF latest.req = req THEN [latest EXCEPT !.st = "failed"] ELSE latest
    /\ pLoading' = FALSE
    /\ UNCHANGED <<phones, pagination, filters, issued>>

(***************************************************************************)
(* Specifications                                                          *)
(***************************************************************************)

\* validateWeights alone: any vector of the three weights, not yet validated.
InitValidate ==
    /\ vInput \in [Keys -> ValidateValues]
    /\ vResult = NoResult
    /\ loading = TRUE
    /\ saving = FALSE
    /\ weights = EmptyObj
    /\ originalWeights = EmptyObj
    /\ presets = NoPresets
    /\ toast = "none"
    /\ saveReq = NoReq
    /\ resetReq = NoReq
    /\ loadReq = NoReq
    /\ serverWeights = DefaultWeights
    /\ catalog = <<>>
    /\ normCache = ComputeStats(<<>>)
    /\ engineWeights = Weights4(400, 200, 200, 200)
    /\ formData = CHOOSE f \in FormChoices : TRUE
    /\ rLoading = FALSE
    /\ route = "/recommendation"
    /\ rToast = "none"
    /\ storedPrefs = [none |-> TRUE]
    /\ storedResults = NoResponse
    /\ request = NoRequest
    /\ stage = "form"
    /\ work = <<>>
    /\ response = NoResponse
    /\ prevResponse = NoResponse
    /\ calls = 0
    /\ mInput = NoMetricInput
    /\ mOutput = NoMetric
    /\ newPhone = DefaultNewPhone
    /\ addReq = NoAddReq
    /\ versions = <<catalog>>
    /\ evaluating = FALSE
    /\ results = NoResults
    /\ eLoading = TRUE
    /\ resultsReq = "sent"
    /\ eToast = "none"
    /\ evalReq = NoEvalReq
    /\ evalStage = "idle"
    /\ evalWork = <<>>
    /\ evalResponse = NoEvalResponse
    /\ evalK = 5
    /\ rResults = NoResponse
    /\ sortBy = "similarity"
    /\ pLoading = TRUE
    /\ phones = <<>>
    /\ pagination = [page |-> 1, total |-> 0, totalPages |-> 0]
    /\ filters = DefaultFilters
    /\ listReqs = {ListRequest(1, 1, DefaultFilters)}
    /\ issued = 1
    /\ latest = [req |-> ListRequest(1, 1, DefaultFilters), st |-> "sent"]

NextValidate == Validate /\ UNCHANGED notValidateVars

SpecValidate == InitValidate /\ [][NextValidate]_vars

\* The Admin page mounted: empty state, loadData called by the mount effect.
InitAdmin ==
    /\ vInput = EmptyObj
    /\ vResult = NoResult
    /\ loading = TRUE
    /\ saving = FALSE
    /\ weights = EmptyObj
    /\ originalWeights = EmptyObj
    /\ presets = NoPresets
    /\ toast = "none"
    /\ saveReq = NoReq
    /\ resetReq = NoReq
    /\ loadReq = [st |-> "sent", w |-> EmptyObj]
    /\ serverWeights = DefaultWeights
    /\ catalog = <<>>
    /\ normCache = ComputeStats(<<>>)
    /\ engineWeights = Weights4(400, 200, 200, 200)
    /\ formData = CHOOSE f \in FormChoices : TRUE
    /\ rLoading = FALSE
    /\ route = "/recommendation"
    /\ rToast = "none"
    /\ storedPrefs = [none |-> TRUE]
    /\ storedResults = NoResponse
    /\ request = NoRequest
    /\ stage = "form"
    /\ work = <<>>
    /\ response = NoResponse
    /\ prevResponse = NoResponse
    /\ calls = 0
    /\ mInput = NoMetricInput
    /\ mOutput = NoMetric
    /\ newPhone = DefaultNewPhone
    /\ addReq = NoAddReq
    /\ versions = <<catalog>>
    /\ evaluating = FALSE
    /\ results = NoResults
    /\ eLoading = TRUE
    /\ resultsReq = "sent"
    /\ eToast = "none"
    /\ evalReq = NoEvalReq
    /\ evalStage = "idle"
    /\ evalWork = <<>>
    /\ evalResponse = NoEvalResponse
    /\ evalK = 5
    /\ rResults = NoResponse
    /\ sortBy = "similarity"
    /\ pLoading = TRUE
    /\ phones = <<>>
    /\ pagination = [page |-> 1, total |-> 0, totalPages |-> 0]
    /\ filters = DefaultFilters
    /\ listReqs = {ListRequest(1, 1, DefaultFilters)}
    /\ issued = 1
    /\ latest = [req |-> ListRequest(1, 1, DefaultFilters), st |-> "sent"]

NextAdmin ==
    \/ \E key \in AdminKeys, value \in InputTexts : handleWeightChange(key, value) /\ UNCHANGED notAdminVars
    \/ \E presetKey \in DOMAIN ServerPresets : applyPreset(presetKey) /\ UNCHANGED notAdminVars
    \/ saveWeights /\ UNCHANGED notAdminVars
    \/ ServerUpdateWeights /\ UNCHANGED notAdminVars
    \/ saveWeightsOk /\ UNCHANGED notAdminVars
    \/ saveWeightsFail /\ UNCHANGED notAdminVars
    \/ resetWeights /\ UNCHANGED notAdminVars
    \/ ServerResetWeights /\ UNCHANGED notAdminVars
    \/ resetWeightsOk /\ UNCHANGED notAdminVars
    \/ resetWeightsFail /\ UNCHANGED notAdminVars
    \/ ServerGetWeights /\ UNCHANGED notAdminVars
    \/ loadDataOk /\ UNCHANGED notAdminVars
    \/ loadDataFail /\ UNCHANGED notAdminVars

SpecAdmin == InitAdmin /\ [][NextAdmin]_vars

\* The Recommendation page open on a filled form, over any catalog snapshot
\* and weight vector; the Normalizer cache holds that catalog's statistics.
InitRetrieve ==
    /\ vInput = EmptyObj
    /\ vResult = NoResult
    /\ loading = TRUE
    /\ saving = FALSE
    /\ weights = EmptyObj
    /\ originalWeights = EmptyObj
    /\ presets = NoPresets
    /\ toast = "none"
    /\ saveReq = NoReq
    /\ resetReq = NoReq
    /\ loadReq = NoReq
    /\ serverWeights = DefaultWeights
    /\ catalog \in Catalogs
    /\ normCache = ComputeStats(catalog)
    /\ engineWeights \in EngineWeightChoices
    /\ formData \in FormChoices
    /\ rLoading = FALSE
    /\ route = "/recommendation"
    /\ rToast = "none"
    /\ storedPrefs = [none |-> TRUE]
    /\ storedResults = NoResponse
    /\ request = NoRequest
    /\ stage = "form"
    /\ work = <<>>
    /\ response = NoResponse
    /\ prevResponse = NoResponse
    /\ calls = 0
    /\ mInput = NoMetricInput
    /\ mOutput = NoMetric
    /\ newPhone = DefaultNewPhone
    /\ addReq = NoAddReq
    /\ versions = <<catalog>>
    /\ evaluating = FALSE
    /\ results = NoResults
    /\ eLoading = TRUE
    /\ resultsReq = "sent"
    /\ eToast = "none"
    /\ evalReq = NoEvalReq
    /\ evalStage = "idle"
    /\ evalWork = <<>>
    /\ evalResponse = NoEvalResponse
    /\ evalK = 5
    /\ rResults = NoResponse
    /\ sortBy = "similarity"
    /\ pLoading = TRUE
    /\ phones = <<>>
    /\ pagination = [page |-> 1, total |-> 0, totalPages |-> 0]
    /\ filters = DefaultFilters
    /\ listReqs = {ListRequest(1, 1, DefaultFilters)}
    /\ issued = 1
    /\ latest = [req |-> ListRequest(1, 1, DefaultFilters), st |-> "sent"]

NextRetrieve ==
    \/ \E topK \in 1..MaxTopK, minSimilarity \in MinSimilarityChoices :
            handleSubmit(topK, minSimilarity) /\ UNCHANGED notRetrVars
    \/ CheckWeights /\ UNCHANGED notRetrVars
    \/ ApplyHardFilters /\ UNCHANGED notRetrVars
    \/ Retrieve /\ UNCHANGED notRetrVars
    \/ DropBelowThreshold /\ UNCHANGED notRetrVars
    \/ Sort /\ UNCHANGED notRetrVars
    \/ Reuse /\ UNCHANGED notRetrVars
    \/ Revise /\ UNCHANGED notRetrVars
    \/ ReturnRecommendations /\ UNCHANGED notRetrVars
    \/ RequestFails /\ UNCHANGED notRetrVars
    \/ handleSubmitResolved /\ UNCHANGED notRetrVars
    \/ handleSubmitRejected /\ UNCHANGED notRetrVars
    \/ backToRecommendation /\ UNCHANGED notRetrVars

SpecRetrieve == InitRetrieve /\ [][NextRetrieve]_vars

\* A metric function about to be applied: its arguments, and for distance and
\* normalize a catalog with its Normalizer cache and a valid weight vector.
InitMetric ==
    /\ vInput = EmptyObj
    /\ vResult = NoResult
    /\ loading = TRUE
    /\ saving = FALSE
    /\ weights = EmptyObj
    /\ originalWeights = EmptyObj
    /\ presets = NoPresets
    /\ toast = "none"
    /\ saveReq = NoReq
    /\ resetReq = NoReq
    /\ loadReq = NoReq
    /\ serverWeights = DefaultWeights
    /\ mInput \in MetricInputs
    /\ mOutput = NoMetric
    /\ catalog \in IF mInput.op = "similarity" THEN {<<>>} ELSE Catalogs
    /\ normCache = ComputeStats(catalog)
    /\ engineWeights \in IF mInput.op = "distance" THEN MetricWeights
                         ELSE {Weights4(400, 200, 200, 200)}
    /\ formData = CHOOSE f \in FormChoices : TRUE
    /\ rLoading = FALSE
    /\ route = "/recommendation"
    /\ rToast = "none"
    /\ storedPrefs = [none |-> TRUE]
    /\ storedResults = NoResponse
    /\ request = NoRequest
    /\ stage = "form"
    /\ work = <<>>
    /\ response = NoResponse
    /\ prevResponse = NoResponse
    /\ calls = 0
    /\ newPhone = DefaultNewPhone
    /\ addReq = NoAddReq
    /\ versions = <<catalog>>
    /\ evaluating = FALSE
    /\ results = NoResults
    /\ eLoading = TRUE
    /\ resultsReq = "sent"
    /\ eToast = "none"
    /\ evalReq = NoEvalReq
    /\ evalStage = "idle"
    /\ evalWork = <<>>
    /\ evalResponse = NoEvalResponse
    /\ evalK = 5
    /\ rResults = NoResponse
    /\ sortBy = "similarity"
    /\ pLoading = TRUE
    /\ phones = <<>>
    /\ pagination = [page |-> 1, total |-> 0, totalPages |-> 0]
    /\ filters = DefaultFilters
    /\ listReqs = {ListRequest(1, 1, DefaultFilters)}
    /\ issued = 1
    /\ latest = [req |-> ListRequest(1, 1, DefaultFilters), st |-> "sent"]

NextMetric ==
    \/ ComputeDistance /\ UNCHANGED notMetricVars
    \/ ComputeSimilarity /\ UNCHANGED notMetricVars
    \/ ComputeNormalize /\ UNCHANGED notMetricVars

SpecMetric == InitMetric /\ [][NextMetric]_vars

\* The Admin page mounted and the Recommendation page open, over a catalog
\* that add-phone and delete-phone requests change.
InitCatalog ==
    /\ vInput = EmptyObj
    /\ vResult = NoResult
    /\ loading = TRUE
    /\ saving = FALSE
    /\ weights = EmptyObj
    /\ originalWeights = EmptyObj
    /\ presets = NoPresets
    /\ toast = "none"
    /\ saveReq = NoReq
    /\ resetReq = NoReq
    /\ loadReq = [st |-> "sent", w |-> EmptyObj]
    /\ serverWeights = DefaultWeights
    /\ catalog \in {<<>>, PoolSubSeq({1, 3})}
    /\ normCache = ComputeStats(catalog)
    /\ engineWeights = Weights4(250, 250, 250, 250)
    /\ formData \in {f \in FormChoices :
                        /\ f.max_harga = Null /\ f.min_rating = Null
                        /\ f.min_baterai = 45 /\ f.preferred_os = NullStr
                        /\ f.preferred_brands = {}}
    /\ rLoading = FALSE
    /\ route = "/recommendation"
    /\ rToast = "none"
    /\ storedPrefs = [none |-> TRUE]
    /\ storedResults = NoResponse
    /\ request = NoRequest
    /\ stage = "form"
    /\ work = <<>>
    /\ response = NoResponse
    /\ prevResponse = NoResponse
    /\ calls = 0
    /\ mInput = NoMetricInput
    /\ mOutput = NoMetric
    /\ newPhone = DefaultNewPhone
    /\ addReq = NoAddReq
    /\ versions = <<catalog>>
    /\ evaluating = FALSE
    /\ results = NoResults
    /\ eLoading = TRUE
    /\ resultsReq = "sent"
    /\ eToast = "none"
    /\ evalReq = NoEvalReq
    /\ evalStage = "idle"
    /\ evalWork = <<>>
    /\ evalResponse = NoEvalResponse
    /\ evalK = 5
    /\ rResults = NoResponse
    /\ sortBy = "similarity"
    /\ pLoading = TRUE
    /\ phones = <<>>
    /\ pagination = [page |-> 1, total |-> 0, totalPages |-> 0]
    /\ filters = DefaultFilters
    /\ listReqs = {ListRequest(1, 1, DefaultFilters)}
    /\ issued = 1
    /\ latest = [req |-> ListRequest(1, 1, DefaultFilters), st |-> "sent"]

\* Records a client asks to delete: one of the initial catalog, and the first
\* one added.
DeleteChoices == {PhonePool[3].id, MaxId(PoolSubSeq({1, 3})) + 1}

NextCatalog ==
    \/ \E p \in NewPhoneChoices :
            setNewPhone(p) /\ UNCHANGED <<validateVars, retrVars, metricVars, evalVars,
                                           resultVars, listVars>>
    \/ handleAddPhone /\ UNCHANGED <<validateVars, retrVars, metricVars, evalVars,
                                           resultVars, listVars>>
    \/ ServerAddPhone /\ UNCHANGED <<validateVars, metricVars, evalVars,
                                           resultVars, listVars>>
    \/ handleAddPhoneOk /\ UNCHANGED <<validateVars, retrVars, metricVars, evalVars,
                                           resultVars, listVars>>
    \/ handleAddPhoneFail /\ UNCHANGED <<validateVars, retrVars, metricVars, evalVars,
                                           resultVars, listVars>>
    \/ \E id \in DeleteChoices :
            ServerDeletePhone(id) /\ UNCHANGED <<validateVars, metricVars, evalVars,
                                           resultVars, listVars>>
    \/ ServerGetWeights /\ UNCHANGED notAdminVars
    \/ loadDataOk /\ UNCHANGED notAdminVars
    \/ loadDataFail /\ UNCHANGED notAdminVars
    \/ calls = 0 /\ handleSubmit(MaxTopK, 200) /\ UNCHANGED notRetrVars
    \/ CheckWeights /\ UNCHANGED notRetrVars
    \/ ApplyHardFilters /\ UNCHANGED notRetrVars
    \/ Retrieve /\ UNCHANGED notRetrVars
    \/ DropBelowThreshold /\ UNCHANGED notRetrVars
    \/ Sort /\ UNCHANGED notRetrVars
    \/ Reuse /\ UNCHANGED notRetrVars
    \/ Revise /\ UNCHANGED notRetrVars
    \/ ReturnRecommendations /\ UNCHANGED notRetrVars
    \/ RequestFails /\ UNCHANGED notRetrVars
    \/ handleSubmitResolved /\ UNCHANGED notRetrVars
    \/ handleSubmitRejected /\ UNCHANGED notRetrVars
    \/ evalStage = "idle" /\ runEvaluation(<<Scenario7030>>) /\ UNCHANGED notEvalVars
    \/ EvalSplit /\ UNCHANGED notEvalVars
    \/ EvalClassify /\ UNCHANGED notEvalVars
    \/ EvalReport /\ UNCHANGED notEvalVars
    \/ EvalRequestFails /\ UNCHANGED notEvalVars
    \/ runEvaluationOk /\ UNCHANGED notEvalVars
    \/ runEvaluationFail /\ UNCHANGED notEvalVars
    \/ \E data \in SavedResultChoices : loadResultsOk(data) /\ UNCHANGED notEvalVars
    \/ loadResultsFail /\ UNCHANGED notEvalVars

SpecCatalog == InitCatalog /\ [][NextCatalog]_vars

\* The Evaluation page showing the default results, over any catalog tried,
\* with the evaluator set to one of the neighbour counts.
InitEvaluate ==
    /\ vInput = EmptyObj
    /\ vResult = NoResult
    /\ loading = TRUE
    /\ saving = FALSE
    /\ weights = EmptyObj
    /\ originalWeights = EmptyObj
    /\ presets = NoPresets
    /\ toast = "none"
    /\ saveReq = NoReq
    /\ resetReq = NoReq
    /\ loadReq = NoReq
    /\ serverWeights = DefaultWeights
    /\ catalog \in EvalCatalogs
    /\ normCache = ComputeStats(catalog)
    /\ engineWeights \in MetricWeights \cup {Weights4(500, 500, 0, 0)}
    /\ formData = CHOOSE f \in FormChoices : TRUE
    /\ rLoading = FALSE
    /\ route = "/evaluation"
    /\ rToast = "none"
    /\ storedPrefs = [none |-> TRUE]
    /\ storedResults = NoResponse
    /\ request = NoRequest
    /\ stage = "form"
    /\ work = <<>>
    /\ response = NoResponse
    /\ prevResponse = NoResponse
    /\ calls = 0
    /\ mInput = NoMetricInput
    /\ mOutput = NoMetric
    /\ newPhone = DefaultNewPhone
    /\ addReq = NoAddReq
    /\ versions = <<catalog>>
    /\ evaluating = FALSE
    /\ results = NoResults
    /\ eLoading = TRUE
    /\ resultsReq = "sent"
    /\ eToast = "none"
    /\ evalReq = NoEvalReq
    /\ evalStage = "idle"
    /\ evalWork = <<>>
    /\ evalResponse = NoEvalResponse
    /\ evalK \in KChoices
    /\ rResults = NoResponse
    /\ sortBy = "similarity"
    /\ pLoading = TRUE
    /\ phones = <<>>
    /\ pagination = [page |-> 1, total |-> 0, totalPages |-> 0]
    /\ filters = DefaultFilters
    /\ listReqs = {ListRequest(1, 1, DefaultFilters)}
    /\ issued = 1
    /\ latest = [req |-> ListRequest(1, 1, DefaultFilters), st |-> "sent"]

NextEvaluate ==
    \/ \E config \in ConfigChoices : runEvaluation(config) /\ UNCHANGED notEvalVars
    \/ EvalSplit /\ UNCHANGED notEvalVars
    \/ EvalClassify /\ UNCHANGED notEvalVars
    \/ EvalReport /\ UNCHANGED notEvalVars
    \/ EvalRequestFails /\ UNCHANGED notEvalVars
    \/ runEvaluationOk /\ UNCHANGED notEvalVars
    \/ runEvaluationFail /\ UNCHANGED notEvalVars
    \/ \E data \in SavedResultChoices : loadResultsOk(data) /\ UNCHANGED notEvalVars
    \/ loadResultsFail /\ UNCHANGED notEvalVars

SpecEvaluate == InitEvaluate /\ [][NextEvaluate]_vars

\* A run that was started goes on: the server works the request off or the
\* request times out (api.js, timeout 30000), and the handler resumes. Every
\* such step moves the run to another stage, and no other step does while a
\* run is in flight.
EvalStages == {"idle", "requested", "split", "classified", "responded", "handled"}

EvalProgress ==
    /\ evalStage \in {"requested", "split", "classified", "responded"}
    /\ evalStage' \in EvalStages \ {evalStage}

SpecEvaluateFair == InitEvaluate /\ [][NextEvaluate]_vars /\ WF_evalStage(EvalProgress)

\* The explanation generator and the phone card's highlights, on their own.
InitExplain ==
    /\ vInput = EmptyObj
    /\ vResult = NoResult
    /\ loading = TRUE
    /\ saving = FALSE
    /\ weights = EmptyObj
    /\ originalWeights = EmptyObj
    /\ presets = NoPresets
    /\ toast = "none"
    /\ saveReq = NoReq
    /\ resetReq = NoReq
    /\ loadReq = NoReq
    /\ serverWeights = DefaultWeights
    /\ mInput \in ExplainInputs
    /\ mOutput = NoExplanation
    /\ catalog = <<>>
    /\ normCache = ComputeStats(catalog)
    /\ engineWeights = Weights4(400, 200, 200, 200)
    /\ formData = CHOOSE f \in FormChoices : TRUE
    /\ rLoading = FALSE
    /\ route = "/recommendation"
    /\ rToast = "none"
    /\ storedPrefs = [none |-> TRUE]
    /\ storedResults = NoResponse
    /\ request = NoRequest
    /\ stage = "form"
    /\ work = <<>>
    /\ response = NoResponse
    /\ prevResponse = NoResponse
    /\ calls = 0
    /\ newPhone = DefaultNewPhone
    /\ addReq = NoAddReq
    /\ versions = <<catalog>>
    /\ evaluating = FALSE
    /\ results = NoResults
    /\ eLoading = TRUE
    /\ resultsReq = "sent"
    /\ eToast = "none"
    /\ evalReq = NoEvalReq
    /\ evalStage = "idle"
    /\ evalWork = <<>>
    /\ evalResponse = NoEvalResponse
    /\ evalK = 5
    /\ rResults = NoResponse
    /\ sortBy = "similarity"
    /\ pLoading = TRUE
    /\ phones = <<>>
    /\ pagination = [page |-> 1, total |-> 0, totalPages |-> 0]
    /\ filters = DefaultFilters
    /\ listReqs = {ListRequest(1, 1, DefaultFilters)}
    /\ issued = 1
    /\ latest = [req |-> ListRequest(1, 1, DefaultFilters), st |-> "sent"]

NextExplain ==
    \/ ComputeExplain /\ UNCHANGED notMetricVars
    \/ RenderExplained /\ UNCHANGED notMetricVars
    \/ RenderGiven /\ UNCHANGED notMetricVars

SpecExplain == InitExplain /\ [][NextExplain]_vars

\* The Recommendation form with its brand buttons, one request and its
\* retrieval.
InitQuery ==
    /\ vInput = EmptyObj
    /\ vResult = NoResult
    /\ loading = TRUE
    /\ saving = FALSE
    /\ weights = EmptyObj
    /\ originalWeights = EmptyObj
    /\ presets = NoPresets
    /\ toast = "none"
    /\ saveReq = NoReq
    /\ resetReq = NoReq
    /\ loadReq = NoReq
    /\ serverWeights = DefaultWeights
    /\ catalog \in {PoolSubSeq({1, 2, 3}), PoolSubSeq({1, 3, 4, 6}), Reverse(PoolSubSeq({2, 5}))}
    /\ normCache = ComputeStats(catalog)
    /\ engineWeights = Weights4(400, 200, 200, 200)
    /\ formData \in {f \in FormChoices : f.preferred_brands = {}}
    /\ rLoading = FALSE
    /\ route = "/recommendation"
    /\ rToast = "none"
    /\ storedPrefs = [none |-> TRUE]
    /\ storedResults = NoResponse
    /\ request = NoRequest
    /\ stage = "form"
    /\ work = <<>>
    /\ response = NoResponse
    /\ prevResponse = NoResponse
    /\ calls = 0
    /\ mInput = NoMetricInput
    /\ mOutput = NoMetric
    /\ newPhone = DefaultNewPhone
    /\ addReq = NoAddReq
    /\ versions = <<catalog>>
    /\ evaluating = FALSE
    /\ results = NoResults
    /\ eLoading = TRUE
    /\ resultsReq = "sent"
    /\ eToast = "none"
    /\ evalReq = NoEvalReq
    /\ evalStage = "idle"
    /\ evalWork = <<>>
    /\ evalResponse = NoEvalResponse
    /\ evalK = 5
    /\ rResults = NoResponse
    /\ sortBy = "similarity"
    /\ pLoading = TRUE
    /\ phones = <<>>
    /\ pagination = [page |-> 1, total |-> 0, totalPages |-> 0]
    /\ filters = DefaultFilters
    /\ listReqs = {ListRequest(1, 1, DefaultFilters)}
    /\ issued = 1
    /\ latest = [req |-> ListRequest(1, 1, DefaultFilters), st |-> "sent"]

NextQuery ==
    \/ \E brand \in BrandChoices : handleBrandToggle(brand) /\ UNCHANGED notRetrVars
    \/ calls = 0 /\ handleSubmit(MaxTopK, 200) /\ UNCHANGED notRetrVars
    \/ CheckWeights /\ UNCHANGED notRetrVars
    \/ ApplyHardFilters /\ UNCHANGED notRetrVars
    \/ Retrieve /\ UNCHANGED notRetrVars
    \/ DropBelowThreshold /\ UNCHANGED notRetrVars
    \/ Sort /\ UNCHANGED notRetrVars
    \/ Reuse /\ UNCHANGED notRetrVars
    \/ Revise /\ UNCHANGED notRetrVars
    \/ ReturnRecommendations /\ UNCHANGED notRetrVars
    \/ RequestFails /\ UNCHANGED notRetrVars
    \/ handleSubmitResolved /\ UNCHANGED notRetrVars
    \/ handleSubmitRejected /\ UNCHANGED notRetrVars

SpecQuery == InitQuery /\ [][NextQuery]_vars

\* The Results page on whatever the store holds.
InitResults ==
    /\ vInput = EmptyObj
    /\ vResult = NoResult
    /\ loading = TRUE
    /\ saving = FALSE
    /\ weights = EmptyObj
    /\ originalWeights = EmptyObj
    /\ presets = NoPresets
    /\ toast = "none"
    /\ saveReq = NoReq
    /\ resetReq = NoReq
    /\ loadReq = NoReq
    /\ serverWeights = DefaultWeights
    /\ catalog = <<>>
    /\ normCache = ComputeStats(catalog)
    /\ engineWeights = Weights4(400, 200, 200, 200)
    /\ formData = CHOOSE f \in FormChoices : TRUE
    /\ rLoading = FALSE
    /\ route = "/results"
    /\ rToast = "none"
    /\ storedPrefs = [none |-> TRUE]
    /\ storedResults \in StoredChoices
    /\ request = NoRequest
    /\ stage = "form"
    /\ work = <<>>
    /\ response = NoResponse
    /\ prevResponse = NoResponse
    /\ calls = 0
    /\ mInput = NoMetricInput
    /\ mOutput = NoMetric
    /\ newPhone = DefaultNewPhone
    /\ addReq = NoAddReq
    /\ versions = <<catalog>>
    /\ evaluating = FALSE
    /\ results = NoResults
    /\ eLoading = TRUE
    /\ resultsReq = "sent"
    /\ eToast = "none"
    /\ evalReq = NoEvalReq
    /\ evalStage = "idle"
    /\ evalWork = <<>>
    /\ evalResponse = NoEvalResponse
    /\ evalK = 5
    /\ rResults = NoResponse
    /\ sortBy = "similarity"
    /\ pLoading = TRUE
    /\ phones = <<>>
    /\ pagination = [page |-> 1, total |-> 0, totalPages |-> 0]
    /\ filters = DefaultFilters
    /\ listReqs = {ListRequest(1, 1, DefaultFilters)}
    /\ issued = 1
    /\ latest = [req |-> ListRequest(1, 1, DefaultFilters), st |-> "sent"]

NextResults ==
    \/ ResultsMount /\ UNCHANGED notResultVars
    \/ \E by \in SortChoices : setSortBy(by) /\ UNCHANGED notResultVars

SpecResults == InitResults /\ [][NextResults]_vars

\* The phone list page against a server with a fixed list.
InitList ==
    /\ vInput = EmptyObj
    /\ vResult = NoResult
    /\ loading = TRUE
    /\ saving = FALSE
    /\ weights = EmptyObj
    /\ originalWeights = EmptyObj
    /\ presets = NoPresets
    /\ toast = "none"
    /\ saveReq = NoReq
    /\ resetReq = NoReq
    /\ loadReq = NoReq
    /\ serverWeights = DefaultWeights
    /\ catalog = <<>>
    /\ normCache = ComputeStats(catalog)
    /\ engineWeights = Weights4(400, 200, 200, 200)
    /\ formData = CHOOSE f \in FormChoices : TRUE
    /\ rLoading = FALSE
    /\ route = "/phones"
    /\ rToast = "none"
    /\ storedPrefs = [none |-> TRUE]
    /\ storedResults = NoResponse
    /\ request = NoRequest
    /\ stage = "form"
    /\ work = <<>>
    /\ response = NoResponse
    /\ prevResponse = NoResponse
    /\ calls = 0
    /\ mInput = NoMetricInput
    /\ mOutput = NoMetric
    /\ newPhone = DefaultNewPhone
    /\ addReq = NoAddReq
    /\ versions = <<catalog>>
    /\ evaluating = FALSE
    /\ results = NoResults
    /\ eLoading = TRUE
    /\ resultsReq = "sent"
    /\ eToast = "none"
    /\ evalReq = NoEvalReq
    /\ evalStage = "idle"
    /\ evalWork = <<>>
    /\ evalResponse = NoEvalResponse
    /\ evalK = 5
    /\ rResults = NoResponse
    /\ sortBy = "similarity"
    /\ pLoading = TRUE
    /\ phones = <<>>
    /\ pagination = [page |-> 1, total |-> 0, totalPages |-> 0]
    /\ filters = DefaultFilters
    /\ listReqs = {ListRequest(1, 1, DefaultFilters)}
    /\ issued = 1
    /\ latest = [req |-> ListRequest(1, 1, DefaultFilters), st |-> "sent"]

NextList ==
    \/ \E v \in BrandFilterChoices : handleFilterChange("brand", v) /\ UNCHANGED notListVars
    \/ \E v \in MaxPriceChoices : handleFilterChange("max_price", v) /\ UNCHANGED notListVars
    \/ \E v \in SortOrderChoices : handleFilterChange("sort_order", v) /\ UNCHANGED notListVars
    \/ prevPage /\ UNCHANGED notListVars
    \/ nextPage /\ UNCHANGED notListVars
    \/ \E req \in listReqs : loadPhonesOk(req) /\ UNCHANGED notListVars
    \/ \E req \in listReqs : loadPhonesFail(req) /\ UNCHANGED notListVars

SpecList == InitList /\ [][NextList]_vars

\* The Recommendation page submitting and the Results page showing what was
\* stored.
InitSubmit ==
    /\ vInput = EmptyObj
    /\ vResult = NoResult
    /\ loading = TRUE
    /\ saving = FALSE
    /\ weights = EmptyObj
    /\ originalWeights = EmptyObj
    /\ presets = NoPresets
    /\ toast = "none"
    /\ saveReq = NoReq
    /\ resetReq = NoReq
    /\ loadReq = NoReq
    /\ serverWeights = DefaultWeights
    /\ catalog \in {PoolSubSeq({1, 2, 3}), PoolSubSeq({1, 3, 4, 6}), Reverse(PoolSubSeq({2, 5}))}
    /\ normCache = ComputeStats(catalog)
    /\ engineWeights = Weights4(400, 200, 200, 200)
    /\ formData \in {f \in FormChoices : f.preferred_brands = {}}
    /\ rLoading = FALSE
    /\ route = "/recommendation"
    /\ rToast = "none"
    /\ storedPrefs = [none |-> TRUE]
    /\ storedResults \in {NoResponse, PreviousResults}
    /\ request = NoRequest
    /\ stage = "form"
    /\ work = <<>>
    /\ response = NoResponse
    /\ prevResponse = NoResponse
    /\ calls = 0
    /\ mInput = NoMetricInput
    /\ mOutput = NoMetric
    /\ newPhone = DefaultNewPhone
    /\ addReq = NoAddReq
    /\ versions = <<catalog>>
    /\ evaluating = FALSE
    /\ results = NoResults
    /\ eLoading = TRUE
    /\ resultsReq = "sent"
    /\ eToast = "none"
    /\ evalReq = NoEvalReq
    /\ evalStage = "idle"
    /\ evalWork = <<>>
    /\ evalResponse = NoEvalResponse
    /\ evalK = 5
    /\ rResults = NoResponse
    /\ sortBy = "similarity"
    /\ pLoading = TRUE
    /\ phones = <<>>
    /\ pagination = [page |-> 1, total |-> 0, totalPages |-> 0]
    /\ filters = DefaultFilters
    /\ listReqs = {ListRequest(1, 1, DefaultFilters)}
    /\ issued = 1
    /\ latest = [req |-> ListRequest(1, 1, DefaultFilters), st |-> "sent"]

NextSubmit ==
    \/ \E brand \in BrandChoices : handleBrandToggle(brand) /\ UNCHANGED notRetrVars
    \/ handleSubmit(RequestedTopK, RequestedMinSimilarity) /\ UNCHANGED notRetrVars
    \/ CheckWeights /\ UNCHANGED notRetrVars
    \/ ApplyHardFilters /\ UNCHANGED notRetrVars
    \/ Retrieve /\ UNCHANGED notRetrVars
    \/ DropBelowThreshold /\ UNCHANGED notRetrVars
    \/ Sort /\ UNCHANGED notRetrVars
    \/ Reuse /\ UNCHANGED notRetrVars
    \/ Revise /\ UNCHANGED notRetrVars
    \/ ReturnRecommendations /\ UNCHANGED notRetrVars
    \/ RequestFails /\ UNCHANGED notRetrVars
    \/ handleSubmitResolved /\ UNCHANGED notRetrVars
    \/ handleSubmitRejected /\ UNCHANGED notRetrVars
    \/ ResultsMount /\ UNCHANGED notResultVars
    \/ leaveResults /\ UNCHANGED <<validateVars, adminVars, metricVars, catalogVars,
                                    evalVars, listVars>>

SpecSubmit == InitSubmit /\ [][NextSubmit]_vars

(***************************************************************************)
(* Claims on validateWeights and on saving weights                         *)
(***************************************************************************)

TotalOf(w) == SumOver(w, DOMAIN w)

\* A vector whose total lies in [99, 101] and that has no zero entry.
WithinToleranceNoZero(w) ==
    /\ TotalOf(w) >= 990
    /\ TotalOf(w) <= 1010
    /\ \A k \in DOMAIN w : w[k] # 0

Validated == vResult.message # "none"

\* C1: validateWeights reports valid exactly when the total lies in [99, 101]
\* and no entry is 0; a total of 90 or 110 is rejected, any vector with a 0 is
\* rejected, and a zero-free vector totalling 100.2 is accepted.
C1_ValidIffInToleranceNoZero ==
    Validated =>
        /\ vResult.isValid <=> WithinToleranceNoZero(vInput)
        /\ TotalOf(vInput) \in {900, 1100} => ~vResult.isValid
        /\ (\E k \in Keys : vInput[k] = 0) => ~vResult.isValid
        /\ (TotalOf(vInput) = 1002 /\ \A k \in Keys : vInput[k] # 0) => vResult.isValid

\* A vector totalling 100.2 has been validated and accepted.
C1_Witness == Validated /\ vResult.total = 1002 /\ vResult.isValid

\* A vector totalling 90 has been validated and rejected.
C1_WitnessRejected == Validated /\ vResult.total = 900 /\ ~vResult.isValid

\* C2: every vector validateWeights reports valid has each weight strictly
\* above 0 and at most 100.
C2_ValidEntriesInRange ==
    (Validated /\ vResult.isValid) =>
        \A k \in Keys : vInput[k] > 0 /\ vInput[k] <= 1000

\* C3: saveWeights sends the update request only for a vector that passes
\* validation; a failed validation sends nothing and leaves originalWeights and
\* the stored vector alone; whatever save persists has no zero entry and a total
\* within [99, 101].
C3_SaveOnlyValidated ==
    /\ [](saveReq.st # "none" => WithinToleranceNoZero(saveReq.w))
    /\ [][saveWeights =>
            IF WithinToleranceNoZero(weights)
            THEN saveReq'.st = "sent" /\ saveReq'.w = weights
            ELSE /\ saveReq' = saveReq
                 /\ originalWeights' = originalWeights
                 /\ serverWeights' = serverWeights]_vars
    /\ [][(saveReq.st = "sent" /\ serverWeights' # serverWeights) =>
            WithinToleranceNoZero(serverWeights')]_vars
    /\ [][saveWeightsOk => WithinToleranceNoZero(originalWeights')]_vars

\* A save attempt on a vector with a zero entry was refused: the validation
\* message is shown and no request is in flight.
C3_Witness ==
    /\ toast = "Tidak boleh ada bobot bernilai 0"
    /\ saveReq.st = "none"
    /\ \E k \in DOMAIN weights : weights[k] = 0
    /\ originalWeights # weights

\* A validated vector has been persisted by save.
C3_WitnessSaved ==
    /\ toast = "Bobot berhasil disimpan"
    /\ serverWeights # DefaultWeights

(***************************************************************************)
(* Claims on retrieve                                                      *)
(***************************************************************************)

\* The engine has answered the request with a result list.
Answered == stage \in {"responded", "handled"} /\ response.st = "ok"

\* The record meets every hard constraint the query states.
MeetsConstraints(q, p) ==
    /\ q.max_harga # Null => p.harga <= q.max_harga
    /\ q.min_harga # Null => p.harga >= q.min_harga
    /\ q.min_rating # Null => p.rating >= q.min_rating
    /\ q.min_baterai # Null => p.baterai >= q.min_baterai
    /\ q.preferred_os # NullStr => p.os = q.preferred_os
    /\ ~q.preferred_brands.null => p.brand \in q.preferred_brands.list

\* Positions of the catalog records that meet every hard constraint of the
\* request and reach its similarity threshold.
EligibleRecords ==
    {i \in 1..Len(catalog) :
        /\ MeetsConstraints(request.specs, catalog[i])
        /\ Similarity(Distance(request.specs, catalog[i], engineWeights, normCache))
              >= request.min_similarity}

Min(a, b) == IF a < b THEN a ELSE b

\* C4: retrieve returns at most topK results, each with similarity at least
\* minSimilarity.
C4_AtMostTopKAboveThreshold ==
    Answered =>
        /\ Len(response.recommendations) <= request.top_k
        /\ \A i \in 1..Len(response.recommendations) :
              response.recommendations[i].similarity_score >= request.min_similarity

\* A result list cut to topK from a larger catalog, with a record dropped by
\* the threshold.
C4_Witness ==
    /\ Answered
    /\ Len(response.recommendations) = request.top_k
    /\ Cardinality(EligibleRecords) > request.top_k
    /\ \E i \in 1..Len(catalog) :
          /\ MeetsConstraints(request.specs, catalog[i])
          /\ i \notin EligibleRecords

\* C5: no returned record violates a hard constraint of the query; with
\* max_price 8 000 000 a record priced 9 000 000 is never returned.
C5_NoConstraintViolated ==
    Answered =>
        \A i \in 1..Len(response.recommendations) :
            /\ MeetsConstraints(request.specs, response.recommendations[i].phone)
            /\ request.specs.max_harga = 80 =>
                  response.recommendations[i].phone.harga # 90

\* The price scenario: records priced 6 500 000 and 9 000 000 in the catalog,
\* max_price 8 000 000, a brand preference set, and the cheaper one returned.
C5_Witness ==
    /\ Answered
    /\ request.specs.max_harga = 80
    /\ ~request.specs.preferred_brands.null
    /\ \E i \in 1..Len(catalog) : catalog[i].harga = 90
    /\ \E i \in 1..Len(catalog) : catalog[i].brand = "Apple"
    /\ \E i \in 1..Len(response.recommendations) :
          response.recommendations[i].phone.id = 1

\* C6: the number of results is min(topK, number of catalog records that pass
\* every hard filter and reach minSimilarity): a brand or OS filter never
\* leaves fewer than topK results when topK eligible records exist.
C6_CountIsMinOfTopKAndEligible ==
    Answered =>
        Len(response.recommendations) = Min(request.top_k, Cardinality(EligibleRecords))

\* C7: the results are in the total order similarity descending, rating
\* descending, price ascending, identifier ascending.
C7_ResultsInTotalOrder ==
    Answered =>
        \A i, j \in 1..Len(response.recommendations) :
            i < j =>
                LET a == response.recommendations[i]
                    b == response.recommendations[j]
                IN  \/ a.similarity_score > b.similarity_score
                    \/ /\ a.similarity_score = b.similarity_score
                       /\ a.phone.rating > b.phone.rating
                    \/ /\ a.similarity_score = b.similarity_score
                       /\ a.phone.rating = b.phone.rating
                       /\ a.phone.harga < b.phone.harga
                    \/ /\ a.similarity_score = b.similarity_score
                       /\ a.phone.rating = b.phone.rating
                       /\ a.phone.harga = b.phone.harga
                       /\ a.phone.id < b.phone.id

\* Two results of equal similarity returned from a catalog that lists them in
\* the opposite order.
C7_Witness ==
    /\ Answered
    /\ Len(response.recommendations) = 2
    /\ response.recommendations[1].similarity_score
          = response.recommendations[2].similarity_score
    /\ \E i, j \in 1..Len(catalog) :
          /\ i < j
          /\ catalog[i] = response.recommendations[2].phone
          /\ catalog[j] = response.recommendations[1].phone

\* The vector satisfies the WeightVector invariant.
SatisfiesWeightVectorInvariant(w) ==
    /\ DOMAIN w = RetrKeys
    /\ \A k \in DOMAIN w : w[k] > 0 /\ w[k] <= 1000
    /\ TotalOf(w) \in 990..1010

\* C8: with a weight vector that fails the WeightVector invariant, retrieve
\* signals a configuration error before any record is scored and returns no
\* results; an error never carries a partly filled list.
C8_InvalidWeightsFailFast ==
    /\ (~SatisfiesWeightVectorInvariant(engineWeights) /\ stage \notin {"form", "requested"}) =>
          /\ response.st = "error"
          /\ work = <<>>
    /\ response.st = "error" => response.recommendations = <<>> /\ work = <<>>

\* A request with a zero weight over a non-empty catalog was refused.
C8_Witness ==
    /\ stage = "handled"
    /\ response.error = "ConfigurationError"
    /\ \E k \in DOMAIN engineWeights : engineWeights[k] = 0
    /\ Len(catalog) > 0

\* C9: on an empty catalog, or when no record passes the hard filters and the
\* threshold, retrieve returns an empty list and no error.
C9_NoSurvivorsEmptyListNoError ==
    (/\ stage \in {"responded", "handled"}
     /\ SatisfiesWeightVectorInvariant(engineWeights)
     /\ response.error # "Network Error"
     /\ EligibleRecords = {}) =>
        /\ response.st = "ok"
        /\ response.success
        /\ response.recommendations = <<>>
        /\ stage = "handled" => rToast = "Tidak ditemukan HP yang sesuai"

\* A non-empty catalog none of whose records survives was answered.
C9_Witness ==
    /\ stage = "handled"
    /\ response.st = "ok"
    /\ Len(catalog) > 0
    /\ EligibleRecords = {}

\* The empty catalog was answered.
C9_WitnessEmptyCatalog ==
    /\ stage = "handled"
    /\ response.st = "ok"
    /\ catalog = <<>>

EqualWeights(w) == \A j, k \in DOMAIN w : w[j] = w[k]

\* The query asks for exactly the values of the record.
IdenticalToQuery(q, p) == \A k \in RetrKeys : TargetOf(q, k) = AttrOf(p, k)

\* Positions of the catalog records the query is identical to and that pass
\* its hard filters.
IdenticalRecords ==
    {i \in 1..Len(catalog) :
        /\ IdenticalToQuery(request.specs, catalog[i])
        /\ MeetsConstraints(request.specs, catalog[i])}

C14_WitnessAboveMaximum ==
    /\ mOutput.op = "normalize"
    /\ normCache[mInput.attr].max > normCache[mInput.attr].min
    /\ mInput.x > normCache[mInput.attr].max
    /\ mOutput.r1 = NormScale

(***************************************************************************)
(* Claims on catalog mutations                                             *)
(***************************************************************************)

\* What retrieve returns on a catalog snapshot: the pipeline as one function,
\* with the Normalizer statistics of that snapshot.
\* The answer the request gets on the given snapshot.
AnswerOn(cat) ==
    RetrieveOn(cat, request.specs, engineWeights, request.top_k, request.min_similarity)

\* The scenario's split of the given snapshot with its predictions.
ClassifiedOn(cat, sc) ==
    LET sp == SplitOf(cat, sc)
    IN  [sp EXCEPT !.predicted =
            [j \in 1..Len(sp.test) |->
                Predict(sp.test[j], sp.train, evalK, engineWeights, ComputeStats(cat))]]

\* The EvaluationResult the request gets on the given snapshot.
EvaluateOn(cat) ==
    [success |-> TRUE,
     best_scenario |-> ScenarioName(evalReq.scenarios[1]),
     scenarios |-> [i \in 1..Len(evalReq.scenarios) |->
                       ScenarioResult(ClassifiedOn(cat, evalReq.scenarios[i]))]]

EvalAnswered == evalStage \in {"responded", "handled"} /\ evalResponse.st = "ok"

\* The scenarios of the answer, by position.
AnsweredScenarios == 1..Len(evalResponse.data.scenarios)

\* The scenarios of the EvaluationResult the evaluator returned, if any.
ReturnedScenarios ==
    IF EvalAnswered
    THEN {evalResponse.data.scenarios[i] : i \in AnsweredScenarios}
    ELSE {}

\* C17: in every EvaluationResult training size plus testing size is the
\* catalog size, the training size is the split ratio's share of it (700 and
\* 300 of 1000 at 70/30, 800 and 200 at 80/20), the confusion matrix entries
\* sum to the testing size, and accuracy lies in [0, 1].
C17_SplitSizesAndMatrixTotal ==
    /\ EvalAnswered =>
          \A i \in AnsweredScenarios :
              LET r  == evalResponse.data.scenarios[i]
                  sc == evalReq.scenarios[i]
              IN  /\ r.train_size + r.test_size = Len(catalog)
                  /\ r.train_size * 100 <= Len(catalog) * sc.train
                  /\ (r.train_size + 1) * 100 > Len(catalog) * sc.train
                  /\ r.test_size >= 1
    /\ \A r \in ReturnedScenarios \cup {DEFAULT_RESULTS.scenarios[1]} :
          /\ Total(r.confusion_matrix.matrix) = r.test_size
          /\ r.metrics.accuracy >= 0 /\ r.metrics.accuracy <= 10000
    /\ DEFAULT_RESULTS.scenarios[1].train_size + DEFAULT_RESULTS.scenarios[1].test_size = 1000
    /\ TrainSize(1000, Scenario7030) = 700 /\ 1000 - TrainSize(1000, Scenario7030) = 300
    /\ TrainSize(1000, Scenario8020) = 800 /\ 1000 - TrainSize(1000, Scenario8020) = 200
    /\ DEFAULT_RESULTS.scenarios[1].train_size = TrainSize(1000, Scenario7030)

\* A run over seven records at 70/30 and 80/20 has been displayed: 4 and 3,
\* 5 and 2.
C17_Witness ==
    /\ evalStage = "handled"
    /\ results = evalResponse.data
    /\ Len(catalog) = 7
    /\ Len(results.scenarios) = 2
    /\ results.scenarios[1].train_size = 4 /\ results.scenarios[1].test_size = 3
    /\ results.scenarios[2].train_size = 5 /\ results.scenarios[2].test_size = 2

\* C18: in every EvaluationResult each confusion-matrix row sums to the number
\* of testing records whose actual label is the row's class, and the trace
\* divided by the testing count is the reported accuracy.
C18_RowSumsAndTraceAccuracy ==
    /\ EvalAnswered =>
          \A i \in AnsweredScenarios :
              LET r == evalResponse.data.scenarios[i]
                  m == r.confusion_matrix.matrix
              IN  /\ \A a \in 1..Len(Labels) :
                        /\ RowSum(m, a) =
                              Cardinality({j \in 1..Len(evalWork[i].test) :
                                              Label(evalWork[i].test[j]) = Labels[a]})
                        /\ r.report[a].support = RowSum(m, a)
                  /\ Trace(m) =
                        Cardinality({j \in 1..Len(evalWork[i].test) :
                                        Label(evalWork[i].test[j]) = evalWork[i].predicted[j]})
    /\ \A r \in ReturnedScenarios \cup {DEFAULT_RESULTS.scenarios[1]} :
          LET m == r.confusion_matrix.matrix
          IN  /\ \A a \in 1..Len(Labels) : r.report[a].support = RowSum(m, a)
              /\ r.metrics.accuracy * Total(m) <= Trace(m) * 10000
              /\ (r.metrics.accuracy + 1) * Total(m) > Trace(m) * 10000

\* A run with a misclassified testing record and a correctly classified one
\* has been displayed.
C18_Witness ==
    /\ evalStage = "handled"
    /\ results = evalResponse.data
    /\ \E i \in 1..Len(results.scenarios) :
          LET m == results.scenarios[i].confusion_matrix.matrix
          IN  Trace(m) >= 1 /\ Trace(m) < Total(m)

\* Distance of a testing record to a training record of the scenario.
NeighbourDistance(wk, j, a) ==
    RecordDistance(wk.test[j], wk.train[a], engineWeights, normCache)

\* Sets of k training records (all of them when there are fewer) none of which
\* is farther from the testing record than a record left out.
NearestSets(wk, j) ==
    {N \in SUBSET (1..Len(wk.train)) :
        /\ Cardinality(N) = Min(evalK, Len(wk.train))
        /\ \A a \in N : \A b \in (1..Len(wk.train)) \ N :
              NeighbourDistance(wk, j, a) <= NeighbourDistance(wk, j, b)}

CountIn(wk, N, l) == Cardinality({a \in N : Label(wk.train[a]) = l})

\* The label's nearest neighbour in N is no farther than d.
HasNeighbourWithin(wk, j, N, l, d) ==
    \E a \in N : Label(wk.train[a]) = l /\ NeighbourDistance(wk, j, a) <= d

\* Label l wins the vote of N: no label has more votes, and a label with as
\* many has no nearer neighbour.
WinsVote(wk, j, N, l) ==
    /\ CountIn(wk, N, l) >= 1
    /\ \A o \in {Labels[x] : x \in 1..Len(Labels)} \ {l} :
          \/ CountIn(wk, N, l) > CountIn(wk, N, o)
          \/ /\ CountIn(wk, N, l) = CountIn(wk, N, o)
             /\ \A b \in N : Label(wk.train[b]) = o =>
                   HasNeighbourWithin(wk, j, N, l, NeighbourDistance(wk, j, b))

\* C19: each testing record is given the label most frequent among its k
\* nearest training records; labels tied on count are decided for the one
\* whose nearest neighbour is nearest.
C19_MajorityOfNearestWithTieBreak ==
    evalStage \in {"classified", "responded", "handled"} =>
        \A i \in 1..Len(evalWork) :
            \A j \in 1..Len(evalWork[i].test) :
                \E N \in NearestSets(evalWork[i], j) :
                    WinsVote(evalWork[i], j, N, evalWork[i].predicted[j])

\* A testing record whose two nearest training records carry different
\* labels was given the label of the nearer, which is not the first class.
C19_Witness ==
    /\ evalStage = "classified"
    /\ evalK = 2
    /\ \E i \in 1..Len(evalWork) :
          \E j \in 1..Len(evalWork[i].test) :
              \E a, b \in 1..Len(evalWork[i].train) :
                  /\ {a, b} \in NearestSets(evalWork[i], j)
                  /\ Label(evalWork[i].train[a]) = evalWork[i].predicted[j]
                  /\ Label(evalWork[i].train[b]) = Labels[1]
                  /\ evalWork[i].predicted[j] # Labels[1]
                  /\ NeighbourDistance(evalWork[i], j, a)
                        < NeighbourDistance(evalWork[i], j, b)

ActualOf(wk, l) == {j \in 1..Len(wk.test) : Label(wk.test[j]) = l}

\* Testing records of the scenario predicted to be l.
PredictedAs(wk, l) == {j \in 1..Len(wk.test) : wk.predicted[j] = l}

\* C21: a class with no testing record, or never predicted, gets precision 0
\* and recall 0, a class with precision 0 and recall 0 gets F1 0, and the run
\* completes with the metrics of every other class: its share of correct
\* predictions among the predicted and among the actual records of the class.
C21_ZeroSupportYieldsZero ==
    /\ (evalStage \in {"responded", "handled"} /\ evalWork # <<>>) =>
            evalResponse.st = "ok"
    /\ EvalAnswered =>
          \A i \in AnsweredScenarios :
              LET wk == evalWork[i]
                  rp == evalResponse.data.scenarios[i].report
              IN  /\ Len(rp) = Len(Labels)
                  /\ \A a \in 1..Len(Labels) :
                        LET actual    == ActualOf(wk, Labels[a])
                            predicted == PredictedAs(wk, Labels[a])
                            correct   == Cardinality(actual \cap predicted)
                        IN  /\ rp[a].label = Labels[a]
                            /\ (actual = {} \/ predicted = {}) =>
                                  (rp[a].precision = 0 /\ rp[a].recall = 0)
                            /\ (rp[a].precision = 0 /\ rp[a].recall = 0) => rp[a].f1 = 0
                            /\ predicted # {} =>
                                  rp[a].precision = (correct * 10000) \div Cardinality(predicted)
                            /\ actual # {} =>
                                  rp[a].recall = (correct * 10000) \div Cardinality(actual)
                            /\ rp[a].f1 >= 0 /\ rp[a].f1 <= 10000

\* A run has completed in which one class has no testing record, one class
\* with testing records was never predicted, and a third has all its testing
\* records predicted correctly.
C21_Witness ==
    /\ EvalAnswered
    /\ \E i \in AnsweredScenarios :
          \E a, b, c \in 1..Len(Labels) :
              /\ ActualOf(evalWork[i], Labels[a]) = {}
              /\ ActualOf(evalWork[i], Labels[b]) # {}
              /\ PredictedAs(evalWork[i], Labels[b]) = {}
              /\ evalResponse.data.scenarios[i].report[c].recall = 10000

(***************************************************************************)
(* Claims on explanations                                                  *)
(***************************************************************************)

\* Highlights of the satisfied attributes of the kind asked for.
SatisfiedHighlights(q, r, hard) ==
    {HighlightOf(a) : a \in {b \in HardAttributes \cup {"ram", "battery", "rating"} :
                                 Satisfies(q, r, b) /\ ((b \in HardAttributes) = hard)}}

ListedIn(list) == {list[i] : i \in 1..Len(list)}

FilledFrom(q, r) ==
    [q EXCEPT !.max_harga = IF @ = Null THEN r.harga ELSE @,
              !.ram = IF @ = Null THEN r.ram ELSE @,
              !.min_baterai = IF @ = Null THEN r.baterai ELSE @,
              !.min_rating = IF @ = Null THEN r.rating ELSE @]

\* The record fails a constraint the query states, the brand set left aside.
FailsStatedConstraint(q, r) ==
    \/ q.max_harga # Null /\ r.harga > q.max_harga
    \/ q.min_harga # Null /\ r.harga < q.min_harga
    \/ q.min_rating # Null /\ r.rating < q.min_rating
    \/ q.min_baterai # Null /\ r.baterai < q.min_baterai
    \/ q.preferred_os # NullStr /\ r.os # q.preferred_os

\* The catalog records the request may get, the brand set left aside: no
\* stated constraint failed, similarity at the threshold or above.
CandidatesAsideFromBrand ==
    {catalog[i] : i \in {j \in 1..Len(catalog) :
        /\ ~FailsStatedConstraint(request.specs, catalog[j])
        /\ Similarity(Distance(request.specs, catalog[j], engineWeights, normCache))
              >= request.min_similarity}}

\* The answer of a retrieval that has no brand filter at all.
RetrieveAsideFromBrand ==
    LET q      == request.specs
        kept   == SelectSeq(catalog, LAMBDA r : PassesHardFilters(q, r))
        scored == [i \in 1..Len(kept) |-> Scored(q, kept[i], engineWeights, normCache)]
        above  == SelectSeq(scored, LAMBDA c : c.sim >= request.min_similarity)
        top    == TopK(SortBySimilarity(above), request.top_k)
    IN  AssignRanks(SelectSeq(top, LAMBDA c :
            q.preferred_os = NullStr \/ c.phone.os = q.preferred_os))

\* C23: a request carries preferred_brands null exactly when no brand is
\* selected; its retrieval then drops no record for its brand and returns what
\* a retrieval without a brand filter returns; no record is dropped for a
\* constraint the query does not state, and an attribute the query leaves out
\* adds nothing to the distance.
C23_AbsentFieldsAreSkipped ==
    /\ [][(stage = "form" /\ stage' = "requested") =>
            ((formData.preferred_brands = {}) = request'.specs.preferred_brands.null)]_vars
    /\ [](stage = "filtered" =>
            \A i \in 1..Len(catalog) :
                ~FailsStatedConstraint(request.specs, catalog[i]) =>
                    \E j \in 1..Len(work) : work[j].phone = catalog[i])
    /\ [](stage = "scored" =>
            \A j \in 1..Len(work) :
                work[j].sim =
                    Similarity(Distance(FilledFrom(request.specs, work[j].phone),
                                        work[j].phone, engineWeights, normCache)))
    /\ [][(stage = "reused" /\ stage' = "revised" /\ request.specs.preferred_brands.null) =>
            \A i \in 1..Len(work) :
                (request.specs.preferred_os = NullStr
                    \/ work[i].phone.os = request.specs.preferred_os) =>
                        \E j \in 1..Len(work') : work'[j] = work[i]]_vars
    /\ []((Answered /\ request.specs.preferred_brands.null) =>
            /\ \A i \in 1..Len(response.recommendations) :
                  response.recommendations[i].phone \in CandidatesAsideFromBrand
            /\ response.recommendations = RetrieveAsideFromBrand)

\* A request submitted with no brand selected carries null and leaves rating
\* and battery out; the answer holds records of two brands.
C23_Witness ==
    /\ Answered
    /\ request.specs.preferred_brands = NullBrands
    /\ request.specs.min_rating = Null
    /\ request.specs.min_baterai = Null
    /\ storedPrefs # [none |-> TRUE]
    /\ storedPrefs.preferred_brands = {}
    /\ \E i, j \in 1..Len(response.recommendations) :
          response.recommendations[i].phone.brand # response.recommendations[j].phone.brand

(***************************************************************************)
(* Claims on the Evaluation page                                           *)
(***************************************************************************)

\* C24: whenever the Evaluation page displays a scenario, the displayed
\* accuracy is trace/total of the displayed confusion matrix, as are the
\* totals under the matrix, and the displayed training and testing sizes are
\* those of the displayed scenario, 700 and 300 only for 70-30.
C24_DisplayedFiguresAgree ==
    DisplaysScenario =>
        LET m == DisplayedMatrix
        IN  /\ DisplayedAccuracy * Total(m) <= Trace(m) * 10000
            /\ (DisplayedAccuracy + 1) * Total(m) > Trace(m) * 10000
            /\ DisplayedFooter.benar = Trace(m)
            /\ DisplayedFooter.salah = Total(m) - Trace(m)
            /\ DisplayedTrainSize = DisplayedScenario.train_size
            /\ DisplayedTestSize = DisplayedScenario.test_size
            /\ (DisplayedTrainSize = 700 /\ DisplayedTestSize = 300) =>
                  DisplayedScenario.name = "70-30"

(***************************************************************************)
(* Claims on the Results page                                              *)
(***************************************************************************)

\* C25: with sort 'similarity' the Results page shows the recommendations in
\* the order of the response: the card at position i is recommendation i and
\* carries rank badge i, also when recommendations have equal
\* similarity_score.
C25_CardsInRankOrder ==
    (ShowsResults /\ sortBy = "similarity") =>
        /\ Len(sortedRecommendations) = Len(storedResults.recommendations)
        /\ \A i \in 1..Len(sortedRecommendations) :
              /\ CardRank(i) = i
              /\ sortedRecommendations[i] = storedResults.recommendations[i]

\* Cards are shown by similarity, two neighbours among them being different
\* phones with equal similarity_score, and a third card with another score.
C25_Witness ==
    /\ ShowsResults
    /\ sortBy = "similarity"
    /\ Len(sortedRecommendations) >= 3
    /\ \E i \in 1..(Len(sortedRecommendations) - 1) :
          /\ sortedRecommendations[i].similarity_score = sortedRecommendations[i + 1].similarity_score
          /\ sortedRecommendations[i].phone.id # sortedRecommendations[i + 1].phone.id
    /\ \E i \in 1..(Len(sortedRecommendations) - 1) :
          sortedRecommendations[i].similarity_score > sortedRecommendations[i + 1].similarity_score

(***************************************************************************)
(* Claims on the phone list page                                           *)
(***************************************************************************)

\* C26: once every list request has completed and the most recently issued
\* one was answered, the phones, the total and the page shown are those of
\* that request's response: an earlier request's response never stays on
\* screen in place of a later one's.
C26_LatestRequestWins ==
    (listReqs = {} /\ latest.st = "ok") =>
        /\ phones = ListResponse(latest.req).phones
        /\ pagination.total = ListResponse(latest.req).total
        /\ pagination.page = latest.req.page

(***************************************************************************)
(* Claims on the Admin page's weights                                      *)
(***************************************************************************)

\* No request of the Admin page is in flight and its controls are shown
\* over weights that were loaded.
AdminQuiet ==
    /\ ~loading
    /\ saveReq = NoReq /\ resetReq = NoReq /\ loadReq = NoReq
    /\ originalWeights # EmptyObj

\* disabled={saving || !isChanged}
SaveButtonEnabled == ~(saving \/ ~isChanged)

\* C27: originalWeights changes only when a load, a save or a reset
\* succeeds, so once every request has completed it is the vector the
\* server holds, and the save button is enabled exactly when the working
\* weights differ from that vector.
C27_OriginalIsServerConfirmed ==
    /\ [][originalWeights' # originalWeights =>
              \/ loadReq.st = "ok" /\ loadReq' = NoReq
              \/ saveReq.st = "ok" /\ saveReq' = NoReq
              \/ resetReq.st = "ok" /\ resetReq' = NoReq]_vars
    /\ [](AdminQuiet =>
              /\ originalWeights = serverWeights
              /\ SaveButtonEnabled <=> weights # serverWeights)

\* C28: whenever the weight editor shows a vector without a zero entry, its
\* total indicator is green exactly when validateWeights accepts the vector,
\* totals of exactly 99 and exactly 101 included.
C28_IndicatorAgreesWithValidation ==
    (ControlsShown /\ weights # EmptyObj /\ ~validateWeights(weights).hasZero) =>
        (TotalIndicatorGreen <=> validateWeights(weights).isValid)

(***************************************************************************)
(* Claims on the Evaluation page's runs                                    *)
(***************************************************************************)

\* A run is between its start and the handling of its response or failure.
RunInFlight == evalStage \in {"requested", "split", "classified", "responded"}

\* C29: at most one evaluation run is in flight: evaluating is true exactly
\* from the start of a run until its response or failure is handled, no run
\* starts while it is true, it always returns to false, and a run that
\* fails leaves the displayed results as they were.
C29_OneRunAtATime ==
    /\ [](evaluating <=> RunInFlight)
    /\ [](evalStage = "responded" => evalResponse.st \in {"ok", "error"})
    /\ [][(RunInFlight /\ evalStage' = "requested") => UNCHANGED evalVars]_vars
    /\ [][(evaluating /\ results' # results) =>
              (evalResponse.st = "ok" /\ results' = evalResponse.data /\ ~evaluating')]_vars
    /\ [][(evalStage = "responded" /\ evalResponse.st = "error" /\ evalStage' = "handled") =>
              (results' = results /\ ~evaluating')]_vars
    /\ (evaluating ~> ~evaluating)

\* A run failed over displayed results and evaluating is false again.
C29_Witness ==
    /\ evalStage = "handled"
    /\ evalResponse.st = "error"
    /\ ~evaluating
    /\ Len(results.scenarios) > 0

(***************************************************************************)
(* Claims on storing and showing the recommendations                       *)
(***************************************************************************)

\* The step in which handleSubmit handles the answer to its request.
HandlesAnswer == stage = "responded" /\ stage' = "handled"

\* The answer is a success with at least one recommendation.
NonEmptyAnswer ==
    response.st = "ok" /\ response.success /\ Len(response.recommendations) > 0

\* C30: a failed request or one with zero recommendations does not navigate
\* to /results, leaves the stored results unchanged and ends with loading
\* false; the stored results are replaced only by a successful response with
\* at least one recommendation; so the Results page is reached only with
\* that response stored, and shows it.
C30_ResultsShowLastNonEmpty ==
    /\ [][(HandlesAnswer /\ ~NonEmptyAnswer) =>
              (route' = route /\ route' # "/results"
                  /\ storedResults' = storedResults /\ ~rLoading')]_vars
    /\ [][storedResults' # storedResults =>
              (HandlesAnswer /\ NonEmptyAnswer /\ storedResults' = response)]_vars
    /\ [](route = "/results" =>
              /\ NonEmptyAnswer
              /\ storedResults = response
              /\ ShowsResults => rResults = response)

====
